---- MODULE Spec2Model ----
(***************************************************************************)
(* Model of the vibe-board report ingestion and machine-identity           *)
(* reconciliation engine (server/index.js).                                *)
(*                                                                         *)
(* Text that the code inspects character by character (machine ids, agent  *)
(* names, fingerprints, task sources) is a sequence of one-character       *)
(* strings, so that trim, toLowerCase and the regular-expression           *)
(* replacements are computed as index.js computes them.  Task titles and   *)
(* statuses are only compared or looked up by the code and are TLA+        *)
(* strings; "" is a missing or blank value.  A timestamp is a number (see   *)
(* OtherForm below); the clock counts ticks.                               *)
(***************************************************************************)
EXTENDS Integers, Sequences, FiniteSets, TLC

\* machines, tasks, history: the persisted state (the store's document).
\* now: the server clock.  req, resp: the last request handled and its
\* response.  ops: the number of requests handled.  firstId: for each
\* (fingerprint, agent name) a report has carried, the card id its first
\* report was answered with.
\* dashboardStreamClients: the registered subscriber connections, in
\* insertion order.  dashboardStreamEventId: the last event id written.
\* channel: for each connection, what the server has written to it and
\* whether it is open.
\* The reporting agent (agent/core/reportClient.ts and its cycle loop):
\* agentNow: the agent's clock, in milliseconds.  queue: the content of the
\* retry queue file.  cycles: the cycles run so far.  wire: the requests the
\* last cycle sent, in order, each with the endpoint's answer.  delivered:
\* the snapshots the endpoint has accepted.  failed: the snapshots a send of
\* which has failed.  dropped: the snapshots taken out of the queue without
\* having been accepted.
VARIABLES machines, tasks, history, now, req, resp, ops, firstId,
          dashboardStreamClients, dashboardStreamEventId, channel,
          agentNow, queue, cycles, wire, delivered, failed, dropped,
          uiNow, previousMachineCounts, machineAlertUntil, machineAlertTimers,
          lastAlertSoundAt, soundsPlayed, uiLoads, loadedTasks, movedAt,
          inflight, repaired

\* The dashboard page (server/dashboard/public/app.js): uiNow: the browser's
\* clock, in milliseconds.  previousMachineCounts, machineAlertUntil,
\* machineAlertTimers, lastAlertSoundAt: the page's variables of these
\* names, the maps as functions on the ids they hold.  soundsPlayed: the
\* times the alert sound was started.  uiLoads: the snapshots loaded.
\* loadedTasks: the stored tasks when the last snapshot was loaded.
\* movedAt: for each card, the time of the last load before which one of its
\* tasks had moved from in_progress to awaiting_verification.
uiVars == <<uiNow, previousMachineCounts, machineAlertUntil, machineAlertTimers,
            lastAlertSoundAt, soundsPlayed, uiLoads, loadedTasks, movedAt>>

agentVars == <<agentNow, queue, cycles, wire, delivered, failed, dropped>>

\* inflight: the report requests between their `await loadDB()` and their
\* `await saveDB(db)` (index.js 562-651), with what each of them holds.
\* The state the atomic handlers leave alone: the processes around the
\* server and the requests in flight.
\* repaired: how often a report replaced the created_at of each stored task.
outside == <<agentVars, uiVars, inflight, repaired>>

vars == <<machines, tasks, history, now, req, resp, ops, firstId,
          dashboardStreamClients, dashboardStreamEventId, channel, outside>>

(***************************************************************************)
(* Characters and strings                                                  *)
(***************************************************************************)
UpperChars == <<"A","B","C","D","E","F","G","H","I","J","K","L","M",
                "N","O","P","Q","R","S","T","U","V","W","X","Y","Z">>

LowerChars == <<"a","b","c","d","e","f","g","h","i","j","k","l","m",
                "n","o","p","q","r","s","t","u","v","w","x","y","z">>

Digits == <<"0","1","2","3","4","5","6","7","8","9">>

Range(s) == { s[i] : i \in DOMAIN s }

\* String.prototype.toLowerCase on one character.
LowerChar(c) ==
    IF c \in Range(UpperChars)
    THEN LowerChars[CHOOSE i \in DOMAIN UpperChars : UpperChars[i] = c]
    ELSE c

toLowerCase(s) == [i \in 1..Len(s) |-> LowerChar(s[i])]

\* [a-z0-9]
IsAlnum(c) == c \in Range(LowerChars) \cup Range(Digits)

\* \s (the inputs use the space only)
IsSpace(c) == c = " "

RECURSIVE TrimLeft(_)
TrimLeft(s) ==
    IF s # <<>> /\ IsSpace(Head(s)) THEN TrimLeft(Tail(s)) ELSE s

RECURSIVE TrimRight(_)
TrimRight(s) ==
    IF s # <<>> /\ IsSpace(s[Len(s)]) THEN TrimRight(SubSeq(s, 1, Len(s) - 1)) ELSE s

\* String(value || '').trim()
trim(s) == TrimRight(TrimLeft(s))

\* s.replace(/[^a-z0-9]+/g, '-'): every maximal run of other characters
\* becomes one '-'.
RECURSIVE ReplaceNonAlnumRuns(_, _)
ReplaceNonAlnumRuns(s, inRun) ==
    IF s = <<>> THEN <<>>
    ELSE IF IsAlnum(Head(s)) THEN <<Head(s)>> \o ReplaceNonAlnumRuns(Tail(s), FALSE)
    ELSE IF inRun THEN ReplaceNonAlnumRuns(Tail(s), TRUE)
    ELSE <<"-">> \o ReplaceNonAlnumRuns(Tail(s), TRUE)

\* s.replace(/[\s_-]+/g, '')
RemoveSeparators(s) == SelectSeq(s, LAMBDA c : ~(IsSpace(c) \/ c = "_" \/ c = "-"))

RECURSIVE StripLeadingDashes(_)
StripLeadingDashes(s) ==
    IF s # <<>> /\ Head(s) = "-" THEN StripLeadingDashes(Tail(s)) ELSE s

RECURSIVE StripTrailingDashes(_)
StripTrailingDashes(s) ==
    IF s # <<>> /\ s[Len(s)] = "-"
    THEN StripTrailingDashes(SubSeq(s, 1, Len(s) - 1)) ELSE s

\* s.slice(0, n)
slice0(s, n) == SubSeq(s, 1, IF Len(s) < n THEN Len(s) ELSE n)

\* Decimal rendering of a natural number in a template literal.
RECURSIVE NumToStr(_)
NumToStr(n) ==
    IF n < 10 THEN <<Digits[n + 1]>> ELSE NumToStr(n \div 10) \o <<Digits[(n % 10) + 1]>>

(***************************************************************************)
(* Normalisation helpers of index.js                                       *)
(***************************************************************************)
Sep == <<":", ":">>

\* The separator of a source-qualified agent name, ' · '.
MiddleDot == <<" ", "·", " ">>

\* A missing, null or empty value.
Blank == <<>>

taskKey(machineId, taskId) == machineId \o Sep \o taskId

normalizeMachineFingerprint_NoFallback(value, fallbackMachineId) == trim(value)

normalizeMachineFingerprint(value, fallbackMachineId) ==
    IF trim(value) # Blank THEN trim(value) ELSE trim(fallbackMachineId)

normalizeDisplayName(value) == trim(value)

\* normalizeAgentName(value, fallbackMachineId); 'Unknown' when both are blank.
normalizeAgentName(value, fallbackMachineId) ==
    IF trim(value) # Blank THEN trim(value)
    ELSE IF trim(fallbackMachineId) # Blank THEN trim(fallbackMachineId)
    ELSE <<"U","n","k","n","o","w","n">>

machineIdentityKey(fingerprint, agentName) == fingerprint \o Sep \o agentName

\* A timestamp value is a number: 0 is a missing one and a negative number
\* an unparseable string; n in 1..(OtherForm - 1) is the ISO-8601 UTC string
\* toISOString gives for the instant n, and OtherForm + n is another spelling
\* of the instant n (another zone or precision).
OtherForm == 100

\* Date.parse(v): the instant, whatever the spelling.
DateParse(v) == IF v > OtherForm THEN v - OtherForm ELSE v

\* Date.parse(v) is NaN for a missing or unparseable timestamp.
IsNaNTime(v) == v <= 0

\* normalizeTimestamp: '' (0) unless the value parses, and then
\* new Date(ms).toISOString().
normalizeTimestamp(value) == IF IsNaNTime(value) THEN 0 ELSE DateParse(value)

\* a || b on timestamps, '' (0) being falsy.
OrTime(a, b) == IF a # 0 THEN a ELSE b

\* a || b on strings, '' being falsy.
OrStr(a, b) == IF a # Blank THEN a ELSE b

RECURSIVE dedupeAliasesFrom(_, _)
dedupeAliasesFrom(aliases, out) ==
    IF aliases = <<>> THEN out
    ELSE LET value == trim(Head(aliases)) IN
         IF value = Blank \/ value \in Range(out)
         THEN dedupeAliasesFrom(Tail(aliases), out)
         ELSE dedupeAliasesFrom(Tail(aliases), Append(out, value))

dedupeAliases(aliases) == dedupeAliasesFrom(aliases, <<>>)

StatusMap ==
    [ running |-> "in_progress",
      active |-> "in_progress",
      done |-> "verified",
      completed |-> "verified",
      completed_pending_verification |-> "awaiting_verification",
      awaiting_verification |-> "awaiting_verification" ]

normalizeTaskStatus_AlwaysInProgress(status) == "in_progress"

\* map[value] || value || 'in_progress'
normalizeTaskStatus(status) ==
    IF status \in DOMAIN StatusMap THEN StatusMap[status]
    ELSE IF status # "" THEN status
    ELSE "in_progress"

S_codex == <<"c","o","d","e","x">>
S_Codex == <<"C","o","d","e","x">>
S_ClaudeCode == <<"C","l","a","u","d","e"," ","C","o","d","e">>
S_OpenCode == <<"O","p","e","n","C","o","d","e">>

normalizeTaskSource(value) ==
    LET raw == trim(value)
        compact == RemoveSeparators(toLowerCase(raw))
    IN  IF raw = Blank THEN Blank
        ELSE IF compact \in { S_codex, S_codex \o <<"a","d","a","p","t","e","r">>,
                              S_codex \o <<"l","o","c","a","l">> } THEN S_Codex
        ELSE IF compact \in { <<"c","l","a","u","d","e","c","o","d","e">>,
                              <<"c","l","a","u","d","e">> } THEN S_ClaudeCode
        ELSE IF compact = <<"o","p","e","n","c","o","d","e">> THEN S_OpenCode
        ELSE raw

normalizeSourceToken(value) ==
    LET source == normalizeTaskSource(value) IN
    IF source = Blank THEN Blank
    ELSE StripTrailingDashes(StripLeadingDashes(
             ReplaceNonAlnumRuns(toLowerCase(source), FALSE)))

composeMachineAgentName_CaseSensitive(machineName, source) ==
    LET base == normalizeAgentName(machineName, Blank)
        normalizedSource == normalizeTaskSource(source)
    IN  IF normalizedSource = Blank THEN base
        ELSE IF base = normalizedSource THEN base
        ELSE base \o MiddleDot \o normalizedSource

composeMachineAgentName(machineName, source) ==
    LET base == normalizeAgentName(machineName, Blank)
        normalizedSource == normalizeTaskSource(source)
    IN  IF normalizedSource = Blank THEN base
        ELSE IF toLowerCase(base) = toLowerCase(normalizedSource) THEN base
        ELSE base \o MiddleDot \o normalizedSource

\* composeMachineTitle(displayName, agentName)
RECURSIVE TitleBySeparators(_, _, _)
TitleBySeparators(custom, agent, seps) ==
    IF seps = <<>> THEN custom \o <<" ", "(">> \o agent \o <<")">>
    ELSE LET prefix == custom \o Head(seps)
             isPrefix == Len(agent) >= Len(prefix) /\ SubSeq(agent, 1, Len(prefix)) = prefix
             suffix == IF isPrefix THEN trim(SubSeq(agent, Len(prefix) + 1, Len(agent)))
                       ELSE Blank
         IN  IF isPrefix /\ suffix # Blank
             THEN custom \o <<" ", "(">> \o suffix \o <<")">>
             ELSE TitleBySeparators(custom, agent, Tail(seps))

composeMachineTitle(displayName, agentName) ==
    LET custom == normalizeDisplayName(displayName)
        agent == normalizeAgentName(agentName, Blank)
    IN  IF custom = Blank THEN agent
        ELSE IF custom = agent THEN custom
        ELSE TitleBySeparators(custom, agent,
                 << MiddleDot, <<" ", "/", " ">>, <<" ", "-", " ">> >>)

(***************************************************************************)
(* Stored records                                                          *)
(*   machine: id, name, last_seen, online_since, fingerprint, aliases,     *)
(*            display_name                                                 *)
(*   task:    id, machine_id, title, status, created_at, updated_at,       *)
(*            source                                                       *)
(*   event:   id, event, machine_id, task_id, title, from_status,          *)
(*            to_status, changed_at                                        *)
(* preview_images and metadata.* are left out: no property below reads     *)
(* them.                                                                   *)
(***************************************************************************)

\* from_status: null
Null == ""

\* Array.prototype.find / Map.prototype.get: the first of the matching
\* indices, 0 when there is none.
FirstIndex(matching) ==
    IF matching = {} THEN 0
    ELSE CHOOSE i \in matching : \A j \in matching : i <= j

\* The body of dedupeMachines' loop: keys and vals are the Map, in insertion
\* order.
RECURSIVE dedupeMachinesFrom(_, _, _, _)
dedupeMachinesFrom(ms, keys, vals, t) ==
    IF ms = <<>> THEN vals
    ELSE
    LET machine == Head(ms)
        fingerprint == normalizeMachineFingerprint(machine.fingerprint, machine.id)
        agentName == normalizeAgentName(machine.name, machine.id)
        key == machineIdentityKey(fingerprint, agentName)
        k == FirstIndex({ i \in DOMAIN keys : keys[i] = key })
    IN
    IF machine.id = Blank THEN dedupeMachinesFrom(Tail(ms), keys, vals, t)
    ELSE IF k = 0 THEN
        dedupeMachinesFrom(Tail(ms), Append(keys, key),
            Append(vals,
                [ id |-> machine.id,
                  name |-> agentName,
                  last_seen |-> IF machine.last_seen # 0 THEN machine.last_seen ELSE t,
                  online_since |-> OrTime(normalizeTimestamp(machine.online_since),
                                     OrTime(normalizeTimestamp(machine.last_seen), t)),
                  fingerprint |-> fingerprint,
                  aliases |-> dedupeAliases(machine.aliases \o <<machine.id>>),
                  display_name |-> normalizeDisplayName(machine.display_name) ]), t)
    ELSE
    LET existing == vals[k]
        aliases == dedupeAliases(existing.aliases \o machine.aliases \o <<machine.id>>)
        mergedDisplayName == OrStr(normalizeDisplayName(existing.display_name),
                                   normalizeDisplayName(machine.display_name))
        mergedOnlineSince ==
            OrTime(normalizeTimestamp(existing.online_since),
              OrTime(normalizeTimestamp(machine.online_since),
                OrTime(normalizeTimestamp(existing.last_seen),
                  OrTime(normalizeTimestamp(machine.last_seen), t))))
        useCurrent == IsNaNTime(existing.last_seen)
                      \/ (~IsNaNTime(machine.last_seen)
                          /\ DateParse(machine.last_seen) > DateParse(existing.last_seen))
        merged ==
            IF useCurrent
            THEN [ id |-> existing.id,
                   name |-> agentName,
                   last_seen |-> IF machine.last_seen # 0 THEN machine.last_seen
                                 ELSE existing.last_seen,
                   online_since |-> mergedOnlineSince,
                   fingerprint |-> fingerprint,
                   aliases |-> aliases,
                   display_name |-> mergedDisplayName ]
            ELSE [ existing EXCEPT !.aliases = aliases,
                                   !.display_name = mergedDisplayName,
                                   !.online_since = mergedOnlineSince ]
    IN  dedupeMachinesFrom(Tail(ms), keys, [vals EXCEPT ![k] = merged], t)

dedupeMachines_KeepAll(ms, t) == ms

dedupeMachines(ms, t) == dedupeMachinesFrom(ms, <<>>, <<>>, t)

RECURSIVE dedupeStoredTasksFrom(_, _, _)
dedupeStoredTasksFrom(ts, keys, vals) ==
    IF ts = <<>> THEN vals
    ELSE
    LET task == Head(ts)
        normalized == [task EXCEPT !.source = normalizeTaskSource(task.source)]
        key == taskKey(task.machine_id, task.id)
        k == FirstIndex({ i \in DOMAIN keys : keys[i] = key })
    IN  IF task.id = Blank \/ task.machine_id = Blank
        THEN dedupeStoredTasksFrom(Tail(ts), keys, vals)
        ELSE IF k = 0
        THEN dedupeStoredTasksFrom(Tail(ts), Append(keys, key), Append(vals, normalized))
        ELSE dedupeStoredTasksFrom(Tail(ts), keys, [vals EXCEPT ![k] = normalized])

dedupeStoredTasks_KeepAll(ts) == ts

dedupeStoredTasks(ts) == dedupeStoredTasksFrom(ts, <<>>, <<>>)

ensureDBShape(db, t) ==
    [ machines |-> dedupeMachines(db.machines, t),
      tasks |-> dedupeStoredTasks(db.tasks),
      history |-> db.history ]

\* The loop that keeps the first entry of a key instead of the last.
RECURSIVE dedupeIncomingTasksFrom_KeepFirst(_, _, _)
dedupeIncomingTasksFrom_KeepFirst(ts, keys, vals) ==
    IF ts = <<>> THEN vals
    ELSE
    LET task == Head(ts)
        source == normalizeTaskSource(task.source)
        key == IF source # Blank THEN task.id \o Sep \o toLowerCase(source) ELSE task.id
        normalizedTask == [task EXCEPT !.source = source]
    IN  IF task.id = Blank \/ \E i \in DOMAIN keys : keys[i] = key
        THEN dedupeIncomingTasksFrom_KeepFirst(Tail(ts), keys, vals)
        ELSE dedupeIncomingTasksFrom_KeepFirst(Tail(ts), Append(keys, key),
                                               Append(vals, normalizedTask))

RECURSIVE dedupeIncomingTasksFrom(_, _, _)
dedupeIncomingTasksFrom(ts, keys, vals) ==
    IF ts = <<>> THEN vals
    ELSE
    LET task == Head(ts)
        source == normalizeTaskSource(task.source)
        key == IF source # Blank THEN task.id \o Sep \o toLowerCase(source) ELSE task.id
        normalizedTask == [task EXCEPT !.source = source]
        k == FirstIndex({ i \in DOMAIN keys : keys[i] = key })
    IN  IF task.id = Blank
        THEN dedupeIncomingTasksFrom(Tail(ts), keys, vals)
        ELSE IF k = 0
        THEN dedupeIncomingTasksFrom(Tail(ts), Append(keys, key), Append(vals, normalizedTask))
        ELSE dedupeIncomingTasksFrom(Tail(ts), keys, [vals EXCEPT ![k] = normalizedTask])

\* dedupeIncomingTasks without the `!task.id` test: an entry without an id
\* is kept, under a key of its own.
dedupeIncomingTasks_KeepIdless(ts) ==
    LET Unnamed == <<"?">>
        named == [ i \in DOMAIN ts |->
                     IF ts[i].id = Blank THEN [ts[i] EXCEPT !.id = Unnamed] ELSE ts[i] ]
        kept == dedupeIncomingTasksFrom(named, <<>>, <<>>)
    IN  [ i \in DOMAIN kept |->
            IF kept[i].id = Unnamed THEN [kept[i] EXCEPT !.id = Blank] ELSE kept[i] ]

dedupeIncomingTasks(ts) == dedupeIncomingTasksFrom(ts, <<>>, <<>>)

DefaultGroupKey == <<"_","_","d","e","f","a","u","l","t","_","_">>

\* groups: sequence of [key, source, tasks] in Map insertion order.
RECURSIVE splitTasksBySourceFrom(_, _)
splitTasksBySourceFrom(ts, groups) ==
    IF ts = <<>> THEN groups
    ELSE
    LET task == Head(ts)
        source == normalizeTaskSource(task.source)
        key == IF source # Blank THEN toLowerCase(source) ELSE DefaultGroupKey
        normalizedTask == [task EXCEPT !.source = source]
        k == FirstIndex({ i \in DOMAIN groups : groups[i].key = key })
    IN  IF task.id = Blank
        THEN splitTasksBySourceFrom(Tail(ts), groups)
        ELSE IF k = 0
        THEN splitTasksBySourceFrom(Tail(ts),
                 Append(groups, [key |-> key, source |-> source, tasks |-> <<normalizedTask>>]))
        ELSE splitTasksBySourceFrom(Tail(ts),
                 [groups EXCEPT ![k].tasks = Append(@, normalizedTask)])

splitTasksBySource(ts) == splitTasksBySourceFrom(ts, <<>>)

(***************************************************************************)
(* Identity resolver                                                       *)
(***************************************************************************)

\* HISTORY_LIMIT (environment-configurable; scaled down from the default 5000).
HISTORY_LIMIT == 4

\* AGENT_OFFLINE_TIMEOUT_MS, in clock ticks (environment-configurable).
AGENT_OFFLINE_TIMEOUT_MS == 1

\* The attempts of pickMachineRecordId's loop: counter < 1000.
PickAttemptLimit == 1000

HasId(ms, id) == \E i \in DOMAIN ms : ms[i].id = id

\* The while loop of pickMachineRecordId.
RECURSIVE pickCandidate(_, _, _, _, _)
pickCandidate(ms, baseId, agentToken, counter, t) ==
    IF counter < PickAttemptLimit
    THEN LET candidate == baseId \o Sep \o agentToken \o <<"-">> \o NumToStr(counter) IN
         IF ~HasId(ms, candidate) THEN candidate
         ELSE pickCandidate(ms, baseId, agentToken, counter + 1, t)
    ELSE baseId \o Sep \o NumToStr(t)

pickMachineRecordId_NoDisambiguation(ms, machineId, machineFingerprint, machineName, t) ==
    trim(machineId)

pickMachineRecordId(ms, machineId, machineFingerprint, machineName, t) ==
    LET baseId == trim(machineId)
        c == FirstIndex({ i \in DOMAIN ms : ms[i].id = baseId })
        sameIdentity ==
            /\ normalizeMachineFingerprint(ms[c].fingerprint, ms[c].id)
                 = normalizeMachineFingerprint(machineFingerprint, machineId)
            /\ normalizeAgentName(ms[c].name, ms[c].id)
                 = normalizeAgentName(machineName, machineId)
        token == slice0(ReplaceNonAlnumRuns(
                     toLowerCase(normalizeAgentName(machineName, machineId)), FALSE), 32)
        agentToken == IF token # Blank THEN token ELSE <<"a","g","e","n","t">>
    IN  IF baseId = Blank THEN Blank
        ELSE IF c = 0 THEN baseId
        ELSE IF sameIdentity THEN baseId
        ELSE pickCandidate(ms, baseId, agentToken, 1, t)

\* The predicate of findMachine's db.machines.find.
MatchesMachine(m, machineId, fingerprint, agentName) ==
    LET fp == normalizeMachineFingerprint(m.fingerprint, m.id)
        existingAgentName == normalizeAgentName(m.name, m.id)
        sameIdentity == fp = fingerprint /\ existingAgentName = agentName
        sameAlias == m.id = machineId \/ machineId \in Range(m.aliases)
    IN  m.id # Blank /\ (sameIdentity \/ (sameAlias /\ existingAgentName = agentName))

findMachine_IgnoreCase(ms, machineId, machineFingerprint, machineName) ==
    LET fingerprint == normalizeMachineFingerprint(machineFingerprint, machineId)
        agentName == normalizeAgentName(machineName, machineId)
    IN  FirstIndex({ i \in DOMAIN ms :
            /\ \/ normalizeMachineFingerprint(ms[i].fingerprint, ms[i].id) = fingerprint
               \/ ms[i].id = machineId
               \/ machineId \in Range(ms[i].aliases)
            /\ toLowerCase(normalizeAgentName(ms[i].name, ms[i].id)) = toLowerCase(agentName) })

\* The lookup that takes a card holding the id whatever its agent name.
findMachine_AnyName(ms, machineId, machineFingerprint, machineName) ==
    LET fingerprint == normalizeMachineFingerprint(machineFingerprint, machineId)
        agentName == normalizeAgentName(machineName, machineId)
    IN  FirstIndex({ i \in DOMAIN ms :
            \/ MatchesMachine(ms[i], machineId, fingerprint, agentName)
            \/ ms[i].id = machineId
            \/ machineId \in Range(ms[i].aliases) })

\* findMachine: the index of the found card in ms, 0 when undefined.
findMachine(ms, machineId, machineFingerprint, machineName) ==
    LET fingerprint == normalizeMachineFingerprint(machineFingerprint, machineId)
        agentName == normalizeAgentName(machineName, machineId)
    IN  FirstIndex({ i \in DOMAIN ms : MatchesMachine(ms[i], machineId, fingerprint, agentName) })

\* Set.add on an insertion-ordered Set.
SetAdd(set, x) == IF x \in Range(set) THEN set ELSE Append(set, x)

\* The union that forgets what it is given.
SetAddAll_None(set, xs) == set

RECURSIVE SetAddAll(_, _)
SetAddAll(set, xs) ==
    IF xs = <<>> THEN set ELSE SetAddAll(SetAdd(set, Head(xs)), Tail(xs))

\* The loops left out: nothing is re-pointed.
RepointMachineId_None(seq, from, to) == seq

\* The loops that would drop what references the folded card.
RepointMachineId_Dropping(seq, from, to) ==
    SelectSeq(seq, LAMBDA x : x.machine_id # from)

\* `if (x.machine_id === duplicate.id) x.machine_id = canonicalMachine.id`
\* over the tasks or the history (index.js 428-437).
RepointMachineId(seq, from, to) ==
    [i \in 1..Len(seq) |-> IF seq[i].machine_id = from
                           THEN [seq[i] EXCEPT !.machine_id = to] ELSE seq[i]]

\* The for loop of mergeMachineRecords over the duplicates; st holds the
\* canonical card, the alias set, the tasks and the history.
RECURSIVE foldDuplicates(_, _)
foldDuplicates(dups, st) ==
    IF dups = <<>> THEN st
    ELSE
    LET duplicate == Head(dups)
        c0 == st.canonical
        c1 == IF normalizeDisplayName(c0.display_name) = Blank
                 /\ normalizeDisplayName(duplicate.display_name) # Blank
              THEN [c0 EXCEPT !.display_name = normalizeDisplayName(duplicate.display_name)]
              ELSE c0
        c2 == IF normalizeTimestamp(c1.online_since) = 0
                 /\ normalizeTimestamp(duplicate.online_since) # 0
              THEN [c1 EXCEPT !.online_since = normalizeTimestamp(duplicate.online_since)]
              ELSE c1
        newer == ~IsNaNTime(duplicate.last_seen)
                 /\ (IsNaNTime(c2.last_seen)
                     \/ DateParse(duplicate.last_seen) > DateParse(c2.last_seen))
        c3 == IF newer
              THEN [c2 EXCEPT !.last_seen = duplicate.last_seen,
                              !.name = OrStr(duplicate.name, c2.name),
                              !.online_since =
                                  IF normalizeTimestamp(duplicate.online_since) # 0
                                  THEN normalizeTimestamp(duplicate.online_since)
                                  ELSE c2.online_since]
              ELSE c2
    IN  foldDuplicates(Tail(dups),
            [ canonical |-> c3,
              aliasSet |-> SetAddAll(SetAdd(st.aliasSet, duplicate.id), duplicate.aliases),
              tasks |-> RepointMachineId(st.tasks, duplicate.id, c0.id),
              history |-> RepointMachineId(st.history, duplicate.id, c0.id) ])

\* The position of the canonical card ci once the cards whose id is in
\* duplicateIds are filtered out.
IndexAfterFilter(ms, ci, duplicateIds) ==
    Cardinality({ j \in 1..ci : ms[j].id \notin duplicateIds })

mergeMachineRecords_NoMerge(db, ci) == [db |-> db, ci |-> ci]

\* mergeMachineRecords(db, canonicalMachine), canonicalMachine = db.machines[ci].
\* Returns the db and the canonical card's new index.
mergeMachineRecords(db, ci) ==
    LET canonicalMachine == db.machines[ci]
        canonicalFingerprint ==
            normalizeMachineFingerprint(canonicalMachine.fingerprint, canonicalMachine.id)
        canonicalAgentName == normalizeAgentName(canonicalMachine.name, canonicalMachine.id)
        isDup(m) ==
            /\ m.id # Blank
            /\ m.id # canonicalMachine.id
            /\ normalizeMachineFingerprint(m.fingerprint, m.id) = canonicalFingerprint
            /\ normalizeAgentName(m.name, m.id) = canonicalAgentName
        duplicates == SelectSeq(db.machines, isDup)
        st == foldDuplicates(duplicates,
                  [ canonical |-> canonicalMachine,
                    aliasSet |-> SetAdd(SetAddAll(<<>>, canonicalMachine.aliases),
                                        canonicalMachine.id),
                    tasks |-> db.tasks,
                    history |-> db.history ])
        merged == [st.canonical EXCEPT !.aliases = dedupeAliases(st.aliasSet)]
        duplicateIds == { duplicates[k].id : k \in DOMAIN duplicates }
        keep(m) == m.id \notin duplicateIds
    IN  IF duplicates = <<>> THEN [db |-> db, ci |-> ci]
        ELSE [ db |-> [ machines |-> SelectSeq([db.machines EXCEPT ![ci] = merged], keep),
                        tasks |-> dedupeStoredTasks(st.tasks),
                        history |-> st.history ],
               ci |-> IndexAfterFilter(db.machines, ci, duplicateIds) ]

(***************************************************************************)
(* Task upsert engine                                                      *)
(* An optional stored task (existing) is a sequence of zero or one task.   *)
(***************************************************************************)

resolveCreatedAt_AdoptIncoming(existing, incomingCreatedAt, incomingUpdatedAt, t) ==
    OrTime(incomingCreatedAt, OrTime(incomingUpdatedAt, t))

resolveCreatedAt(existing, incomingCreatedAt, incomingUpdatedAt, t) ==
    LET existingCreated == IF existing = <<>> THEN 0
                           ELSE normalizeTimestamp(existing[1].created_at)
        existingUpdated == IF existing = <<>> THEN 0
                           ELSE normalizeTimestamp(existing[1].updated_at)
    IN  IF existingCreated # 0
        THEN IF /\ incomingCreatedAt # 0
                /\ existingUpdated # 0
                /\ existingCreated = existingUpdated
                /\ incomingCreatedAt # existingCreated
             THEN incomingCreatedAt
             ELSE existingCreated
        ELSE OrTime(incomingCreatedAt, OrTime(incomingUpdatedAt, t))

\* The resolution that never lets updated_at go back.
resolveUpdatedAt_KeepNewest(existing, incomingUpdatedAt, createdAt, t) ==
    LET existingUpdated == IF existing = <<>> THEN 0
                           ELSE normalizeTimestamp(existing[1].updated_at)
    IN  IF incomingUpdatedAt # 0 /\ incomingUpdatedAt < existingUpdated
        THEN existingUpdated
        ELSE OrTime(incomingUpdatedAt, OrTime(existingUpdated, OrTime(createdAt, t)))

resolveUpdatedAt(existing, incomingUpdatedAt, createdAt, t) ==
    LET existingUpdated == IF existing = <<>> THEN 0
                           ELSE normalizeTimestamp(existing[1].updated_at)
    IN  OrTime(incomingUpdatedAt, OrTime(existingUpdated, OrTime(createdAt, t)))

appendHistory_NoLimit(hist, event) == Append(hist, event)

appendHistory(hist, event) ==
    LET pushed == Append(hist, event) IN
    IF Len(pushed) > HISTORY_LIMIT
    THEN SubSeq(pushed, Len(pushed) - HISTORY_LIMIT + 1, Len(pushed))
    ELSE pushed

isMachineOnline(machine, nowMs) ==
    IF IsNaNTime(machine.last_seen) THEN FALSE
    ELSE nowMs - DateParse(machine.last_seen) <= AGENT_OFFLINE_TIMEOUT_MS

\* Whether the handler appends a status_changed event for a stored task.
StatusChanged_Always(previousStatus, nextStatus) == TRUE

StatusChanged(previousStatus, nextStatus) == previousStatus # nextStatus

\* tasks.find(t => t.id === id && t.machine_id === canonicalMachineId): the
\* index of the stored task, 0 when undefined.
findTask(ts, canonicalMachineId, id) ==
    FirstIndex({ i \in DOMAIN ts : ts[i].id = id /\ ts[i].machine_id = canonicalMachineId })

\* The task object the upsert writes (index.js 594-613, 623-633); existing
\* is the stored task, if any.
upsertedTask(existing, canonicalMachineId, groupSource, tk, t) ==
    LET existingSource == IF existing = <<>> THEN Blank ELSE existing[1].source
        nextSource == normalizeTaskSource(OrStr(tk.source, OrStr(groupSource, existingSource)))
        incomingCreatedAt == normalizeTimestamp(tk.created_at)
        incomingUpdatedAt == normalizeTimestamp(tk.updated_at)
        createdAt == resolveCreatedAt(existing, incomingCreatedAt, incomingUpdatedAt, t)
    IN  [ id |-> tk.id,
          machine_id |-> canonicalMachineId,
          title |-> IF tk.title # "" THEN tk.title ELSE "Untitled Task",
          status |-> normalizeTaskStatus(tk.status),
          created_at |-> createdAt,
          updated_at |-> resolveUpdatedAt(existing, incomingUpdatedAt, createdAt, t),
          source |-> OrStr(nextSource, existingSource) ]

\* The history event of an upsert (index.js 634-646); its id stands for
\* the generated one.
historyEvent(name, updated, previousStatus, t) ==
    [ id |-> <<updated.machine_id, updated.id, t>>,
      event |-> name,
      machine_id |-> updated.machine_id,
      task_id |-> updated.id,
      title |-> updated.title,
      from_status |-> previousStatus,
      to_status |-> updated.status,
      changed_at |-> t ]

\* The update branch (index.js 614-633): the stored task at ei is replaced.
updateTask(db, ei, updated, t) ==
    [ db EXCEPT
        !.history = IF StatusChanged(normalizeTaskStatus(db.tasks[ei].status), updated.status)
                    THEN appendHistory(@, historyEvent("status_changed", updated,
                                           normalizeTaskStatus(db.tasks[ei].status), t))
                    ELSE @,
        !.tasks = [@ EXCEPT ![ei] = updated] ]

\* The create branch (index.js 634-647).
createTask(db, updated, t) ==
    [ db EXCEPT
        !.tasks = Append(@, updated),
        !.history = appendHistory(@, historyEvent("created", updated, Null, t)) ]

putTask(db, ei, canonicalMachineId, groupSource, tk, t) ==
    IF ei # 0
    THEN updateTask(db, ei,
             upsertedTask(<<db.tasks[ei]>>, canonicalMachineId, groupSource, tk, t), t)
    ELSE createTask(db, upsertedTask(<<>>, canonicalMachineId, groupSource, tk, t), t)

\* The body of the forEach over a group's tasks (index.js 591-648).
upsertTask(db, canonicalMachineId, groupSource, tk, t) ==
    IF tk.id = Blank THEN db
    ELSE putTask(db, findTask(db.tasks, canonicalMachineId, tk.id),
                 canonicalMachineId, groupSource, tk, t)

RECURSIVE upsertTasks(_, _, _, _, _)
upsertTasks(db, canonicalMachineId, groupSource, ts, t) ==
    IF ts = <<>> THEN db
    ELSE upsertTasks(upsertTask(db, canonicalMachineId, groupSource, Head(ts), t),
                     canonicalMachineId, groupSource, Tail(ts), t)

\* sourceMachineId: the reported id, qualified by the group's source token.
sourceMachineIdOf(machineId, sourceToken) ==
    IF sourceToken # Blank THEN machineId \o Sep \o sourceToken ELSE machineId

\* The card pushed when findMachine finds none (index.js 566-577).
createdMachine(recordId, sourceMachineId, machineId, sourceMachineName, machineFingerprint, t) ==
    [ id |-> OrStr(recordId, sourceMachineId),
      name |-> sourceMachineName,
      last_seen |-> t,
      online_since |-> t,
      fingerprint |-> machineFingerprint,
      aliases |-> dedupeAliases(<<sourceMachineId, machineId, recordId>>),
      display_name |-> Blank ]

\* The refresh that restarts the streak on every report.
refreshedMachine_AlwaysRestart(machine, sourceMachineId, machineId, sourceMachineName, machineFingerprint, t) ==
    [ machine EXCEPT
        !.name = sourceMachineName,
        !.last_seen = t,
        !.online_since = t,
        !.fingerprint = machineFingerprint,
        !.aliases = dedupeAliases(machine.aliases \o <<machine.id, sourceMachineId, machineId>>) ]

\* The found card after index.js 578-585.
refreshedMachine(machine, sourceMachineId, machineId, sourceMachineName, machineFingerprint, t) ==
    [ machine EXCEPT
        !.name = sourceMachineName,
        !.last_seen = t,
        !.online_since = IF ~isMachineOnline(machine, t) \/ normalizeTimestamp(@) = 0
                         THEN t ELSE @,
        !.fingerprint = machineFingerprint,
        !.aliases = dedupeAliases(machine.aliases \o <<machine.id, sourceMachineId, machineId>>) ]

\* The db with the card at mi refreshed, or a new card pushed when mi = 0,
\* and the card's index.
putMachine(db, mi, sourceMachineId, machineId, sourceMachineName, machineFingerprint, t) ==
    IF mi = 0
    THEN [ db |-> [db EXCEPT !.machines = Append(@,
                      createdMachine(
                          pickMachineRecordId(db.machines, sourceMachineId,
                                              machineFingerprint, sourceMachineName, t),
                          sourceMachineId, machineId, sourceMachineName,
                          machineFingerprint, t))],
           ci |-> Len(db.machines) + 1 ]
    ELSE [ db |-> [db EXCEPT !.machines[mi] =
                      refreshedMachine(@, sourceMachineId, machineId, sourceMachineName,
                                       machineFingerprint, t)],
           ci |-> mi ]

findOrCreateMachine(db, sourceMachineId, machineId, sourceMachineName, machineFingerprint, t) ==
    putMachine(db,
        findMachine(db.machines, sourceMachineId, machineFingerprint, sourceMachineName),
        sourceMachineId, machineId, sourceMachineName, machineFingerprint, t)

\* The card upsert of one task group (index.js 558-588): the db with the
\* card found or created, and the card's index before the merge pass.
upsertMachine(db, machineId, machineName, machineFingerprint, groupSource, t) ==
    findOrCreateMachine(db,
        sourceMachineIdOf(machineId, normalizeSourceToken(groupSource)), machineId,
        composeMachineAgentName(machineName, groupSource), machineFingerprint, t)

\* The group's tasks upserted onto the canonical card mg.db.machines[mg.ci];
\* last is lastCanonicalMachineId.
upsertGroupTasks(mg, groupSource, groupTasks, t) ==
    [ db |-> upsertTasks(mg.db, mg.db.machines[mg.ci].id, groupSource, groupTasks, t),
      last |-> mg.db.machines[mg.ci].id ]

\* The merge pass on the card just upserted (index.js 587-588).
mergeGroup(up, groupSource, groupTasks, t) ==
    upsertGroupTasks(mergeMachineRecords(up.db, up.ci), groupSource, groupTasks, t)

\* One iteration of the for loop over the task groups (index.js 557-649).
processGroup(db, machineId, machineName, machineFingerprint, groupSource, groupTasks, t) ==
    mergeGroup(upsertMachine(db, machineId, machineName, machineFingerprint, groupSource, t),
               groupSource, groupTasks, t)

\* The for loop over the task groups; st is [db, last], last being
\* lastCanonicalMachineId.
RECURSIVE processGroups(_, _, _, _, _, _)
processGroups(st, machineId, machineName, machineFingerprint, groups, t) ==
    IF groups = <<>> THEN st
    ELSE processGroups(
             processGroup(st.db, machineId, machineName, machineFingerprint,
                          normalizeTaskSource(Head(groups).source), Head(groups).tasks, t),
             machineId, machineName, machineFingerprint, Tail(groups), t)

\* The task groups of a report: splitTasksBySource, or the single default
\* group when there is no valid task (index.js 547-550).
defaultGroups(groups) ==
    IF groups = <<>> THEN << [key |-> DefaultGroupKey, source |-> Blank, tasks |-> <<>>] >>
    ELSE groups

taskGroupsOf(payloadTasks) ==
    defaultGroups(splitTasksBySource(dedupeIncomingTasks(payloadTasks)))

\* The response of POST /api/report (index.js 651-657).
reportResponse(st, machineFingerprint, payloadTasks) ==
    [ db |-> st.db,
      resp |-> [ status |-> 200,
                 ok |-> TRUE,
                 machine |-> st.last,
                 machine_fingerprint |-> machineFingerprint,
                 tasks_updated |-> Len(dedupeIncomingTasks(payloadTasks)) ] ]

\* POST /api/report between loadDB and saveDB: the mutated db and the
\* response.
applyReport(db, r, t) ==
    reportResponse(
        processGroups([db |-> db, last |-> r.machine_id], r.machine_id,
                      normalizeAgentName(r.machine_name, r.machine_id),
                      normalizeMachineFingerprint(r.machine_fingerprint, r.machine_id),
                      taskGroupsOf(r.tasks), t),
        normalizeMachineFingerprint(r.machine_fingerprint, r.machine_id), r.tasks)

(***************************************************************************)
(* Dashboard projections                                                   *)
(***************************************************************************)
TasksOf(ts, machineId) == SelectSeq(ts, LAMBDA tk : tk.machine_id = machineId)

\* One row of GET /api/dashboard (index.js 705-721), presence left out.
dashboardRow(m, ts) ==
    [ id |-> m.id,
      agent_name |-> m.name,
      display_name |-> normalizeDisplayName(m.display_name),
      display_title |-> composeMachineTitle(m.display_name, m.name),
      last_seen |-> m.last_seen,
      total_tasks |-> Len(TasksOf(ts, m.id)) ]

Min(a, b) == IF a <= b THEN a ELSE b

Max(a, b) == IF a >= b THEN a ELSE b

\* The presence fields for a card known to be online or not (index.js
\* 246-270); a since-time of 0 is null.
presenceOf(machine, nowMs, online) ==
    IF online
    THEN [ agent_status |-> "online",
           status_since |-> OrTime(normalizeTimestamp(machine.online_since),
                                   DateParse(machine.last_seen)),
           online_since |-> OrTime(normalizeTimestamp(machine.online_since),
                                   DateParse(machine.last_seen)),
           offline_since |-> 0 ]
    ELSE [ agent_status |-> "offline",
           status_since |->
               Min(Max(IF IsNaNTime(machine.last_seen) THEN nowMs
                       ELSE DateParse(machine.last_seen) + AGENT_OFFLINE_TIMEOUT_MS, 0),
                   nowMs),
           online_since |-> normalizeTimestamp(machine.online_since),
           offline_since |->
               Min(Max(IF IsNaNTime(machine.last_seen) THEN nowMs
                       ELSE DateParse(machine.last_seen) + AGENT_OFFLINE_TIMEOUT_MS, 0),
                   nowMs) ]

\* resolveMachinePresence with the comparison of line 245 made strict.
resolveMachinePresence_StrictTimeout(machine, nowMs) ==
    presenceOf(machine, nowMs,
               ~IsNaNTime(machine.last_seen)
               /\ nowMs - DateParse(machine.last_seen) < AGENT_OFFLINE_TIMEOUT_MS)

\* resolveMachinePresence(machine, nowMs) (index.js 242-271).
resolveMachinePresence(machine, nowMs) ==
    presenceOf(machine, nowMs,
               ~IsNaNTime(machine.last_seen)
               /\ nowMs - DateParse(machine.last_seen) <= AGENT_OFFLINE_TIMEOUT_MS)

\* buildCounts(tasks) (index.js 445-456).
CountOf(ts, status) ==
    Cardinality({ i \in DOMAIN ts : normalizeTaskStatus(ts[i].status) = status })

buildCounts(ts) ==
    [ in_progress |-> CountOf(ts, "in_progress"),
      awaiting_verification |-> CountOf(ts, "awaiting_verification"),
      verified |-> CountOf(ts, "verified") ]

\* The item GET /api/dashboard maps a card to (index.js 705-721).
summaryRow(m, ts, nowMs) ==
    dashboardRow(m, ts) @@ resolveMachinePresence(m, nowMs)
      @@ [counts |-> buildCounts(TasksOf(ts, m.id))]

\* String.prototype.localeCompare(other, 'zh-CN') on the characters titles
\* are made of: punctuation sorts before digits and digits before letters;
\* letters differ first by the letter and only then by case, lower case
\* first.
PunctuationOrder == <<" ", "_", "-", ",", ";", ":", "!", "?", ".", "·">>

IndexIn(seq, c) == CHOOSE i \in DOMAIN seq : seq[i] = c

PrimaryWeight(c) ==
    IF c \in Range(PunctuationOrder) THEN IndexIn(PunctuationOrder, c)
    ELSE IF c \in Range(Digits) THEN 20 + IndexIn(Digits, c)
    ELSE IF LowerChar(c) \in Range(LowerChars) THEN 40 + IndexIn(LowerChars, LowerChar(c))
    ELSE 100

TertiaryWeight(c) == IF c \in Range(UpperChars) THEN 1 ELSE 0

RECURSIVE compareWeights(_, _)
compareWeights(a, b) ==
    IF a = <<>> /\ b = <<>> THEN 0
    ELSE IF a = <<>> THEN -1
    ELSE IF b = <<>> THEN 1
    ELSE IF Head(a) < Head(b) THEN -1
    ELSE IF Head(a) > Head(b) THEN 1
    ELSE compareWeights(Tail(a), Tail(b))

localeCompare(a, b) ==
    IF compareWeights([i \in DOMAIN a |-> PrimaryWeight(a[i])],
                      [i \in DOMAIN b |-> PrimaryWeight(b[i])]) # 0
    THEN compareWeights([i \in DOMAIN a |-> PrimaryWeight(a[i])],
                        [i \in DOMAIN b |-> PrimaryWeight(b[i])])
    ELSE compareWeights([i \in DOMAIN a |-> TertiaryWeight(a[i])],
                        [i \in DOMAIN b |-> TertiaryWeight(b[i])])

statusRank(item) == IF item.agent_status = "online" THEN 0 ELSE 1

\* The comparisons of compareDashboardMachines after the status rank, given
\* the difference the status-since times sort by.
compareWithinRank(a, b, sinceDifference) ==
    IF ~IsNaNTime(a.status_since) /\ ~IsNaNTime(b.status_since)
       /\ DateParse(a.status_since) # DateParse(b.status_since)
    THEN sinceDifference
    ELSE IF ~IsNaNTime(a.last_seen) /\ ~IsNaNTime(b.last_seen)
            /\ DateParse(a.last_seen) # DateParse(b.last_seen)
    THEN DateParse(b.last_seen) - DateParse(a.last_seen)
    ELSE localeCompare(a.display_title, b.display_title)

\* compareDashboardMachines sorting the older status-since first.
compareDashboardMachines_OldestFirst(a, b) ==
    IF statusRank(a) # statusRank(b) THEN statusRank(a) - statusRank(b)
    ELSE compareWithinRank(a, b, DateParse(a.status_since) - DateParse(b.status_since))

\* compareDashboardMachines(a, b) (index.js 273-292).
compareDashboardMachines(a, b) ==
    IF statusRank(a) # statusRank(b) THEN statusRank(a) - statusRank(b)
    ELSE compareWithinRank(a, b, DateParse(b.status_since) - DateParse(a.status_since))

\* Array.prototype.sort with compareDashboardMachines: a stable sort; row is
\* inserted before the first row it sorts strictly before.
insertRow(sorted, row) ==
    LET k == FirstIndex({ i \in DOMAIN sorted : compareDashboardMachines(row, sorted[i]) < 0 })
    IN  IF k = 0 THEN Append(sorted, row)
        ELSE SubSeq(sorted, 1, k - 1) \o <<row>> \o SubSeq(sorted, k, Len(sorted))

RECURSIVE sortRows(_, _)
sortRows(rows, sorted) ==
    IF rows = <<>> THEN sorted
    ELSE sortRows(Tail(rows), insertRow(sorted, Head(rows)))

\* The body of GET /api/dashboard (index.js 698-725).
dashboardResponse(db, nowMs) ==
    [ status |-> 200,
      updated_at |-> nowMs,
      machines |-> sortRows([ i \in DOMAIN db.machines |->
                                summaryRow(db.machines[i], db.tasks, nowMs) ], <<>>) ]

\* .slice(-n).reverse()
lastReversed(seq, n) ==
    [ i \in 1..Min(n, Len(seq)) |-> seq[Len(seq) - i + 1] ]

RecentHistoryLength == 20

\* The body of GET /api/dashboard/machine/:id for the card m (index.js
\* 734-751).
detailResponse(m, db, nowMs) ==
    [ status |-> 200,
      id |-> m.id,
      agent_name |-> m.name,
      display_name |-> normalizeDisplayName(m.display_name),
      display_title |-> composeMachineTitle(m.display_name, m.name),
      last_seen |-> m.last_seen,
      counts |-> buildCounts(TasksOf(db.tasks, m.id)),
      tasks |-> TasksOf(db.tasks, m.id),
      recent_history |-> lastReversed(SelectSeq(db.history, LAMBDA h : h.machine_id = m.id),
                                      RecentHistoryLength) ]
      @@ resolveMachinePresence(m, nowMs)

(***************************************************************************)
(* Live update broadcaster                                                 *)
(*                                                                         *)
(* A connection is one response object of GET /api/dashboard/stream.  Its  *)
(* channel records its state ("none" before the request, "open", "closed"  *)
(* once the client has gone, "ended" once the server has ended it),        *)
(* whether a write to it succeeds, and the events written to it.           *)
(***************************************************************************)
Connections == {"c1", "c2"}

NoChannel == [state |-> "none", writable |-> FALSE, received |-> <<>>]

\* The broadcaster's state as one value.
sse ==
    [ clients |-> dashboardStreamClients,
      eventId |-> dashboardStreamEventId,
      channel |-> channel ]

\* writeDashboardStreamEvent(res, eventName, payload) on a response whose
\* writes succeed (index.js 458-466).
writeDashboardStreamEvent(st, c, eventName, payload) ==
    [ st EXCEPT
        !.eventId = @ + 1,
        !.channel[c].received =
            Append(@, [id |-> st.eventId + 1, event |-> eventName, data |-> payload]) ]

\* A removal that leaves the set as it is.
removeDashboardStreamClient_Noop(clients, c) == clients

\* removeDashboardStreamClient(res) (index.js 468-470).
removeDashboardStreamClient(clients, c) == SelectSeq(clients, LAMBDA x : x # c)

\* The catch branch of the broadcast loop (index.js 478-483): the event id
\* was taken before the write threw; the client is removed and ended.
dropFailedClient(st, c) ==
    [ st EXCEPT
        !.eventId = @ + 1,
        !.clients = removeDashboardStreamClient(@, c),
        !.channel[c].state = "ended" ]

\* One iteration of the broadcast loop whose catch branch leaves the
\* failing client registered.
broadcastToClient_KeepFailed(st, c, payload) ==
    IF st.channel[c].writable
    THEN writeDashboardStreamEvent(st, c, "dashboard_updated", payload)
    ELSE [st EXCEPT !.eventId = @ + 1]

\* One iteration of the broadcast loop (index.js 475-484).
broadcastToClient(st, c, payload) ==
    IF st.channel[c].writable
    THEN writeDashboardStreamEvent(st, c, "dashboard_updated", payload)
    ELSE dropFailedClient(st, c)

RECURSIVE broadcastTo(_, _, _)
broadcastTo(cs, st, payload) ==
    IF cs = <<>> THEN st
    ELSE broadcastTo(Tail(cs), broadcastToClient(st, Head(cs), payload), payload)

\* broadcastDashboardUpdate(payload) (index.js 472-485): the loop runs over
\* a copy of the set taken before the first write.
broadcastDashboardUpdate(st, payload) ==
    IF st.clients = <<>> THEN st ELSE broadcastTo(st.clients, st, payload)

\* The broadcaster's state after a step.
Publish(st) ==
    /\ dashboardStreamClients' = st.clients
    /\ dashboardStreamEventId' = st.eventId
    /\ channel' = st.channel

Silent == UNCHANGED <<dashboardStreamClients, dashboardStreamEventId, channel>>

(***************************************************************************)
(* Requests                                                                *)
(***************************************************************************)
\* Bounds of the exploration: requests handled, and the last clock value.
MaxOps == 3

MaxNow == 2

\* The last clock value where the dashboard is read: long enough for two
\* cards to have gone offline at different times.
MaxClock == 4

stored == [machines |-> machines, tasks |-> tasks, history |-> history]

NoRequest == [op |-> "none"]

\* The (fingerprint, agent name) of the card a report's response names: the
\* identity of its last task group.
lastSource(groups) == normalizeTaskSource(groups[Len(groups)].source)

answeredIdentity(r) ==
    << normalizeMachineFingerprint(r.machine_fingerprint, r.machine_id),
       composeMachineAgentName(normalizeAgentName(r.machine_name, r.machine_id),
                               lastSource(taskGroupsOf(r.tasks))) >>

\* What the store does during a request: "none" (it works); "load_rejects"
\* (MySQLStore.loadDB throws, fileStore.js 174-226); "load_empty"
\* (FileStore.loadDB cannot read or parse the file and returns the empty
\* document, fileStore.js 21-33); "save_rejects" (saveDB throws and the
\* stored data is as before: MySQLStore rolls back, fileStore.js 304-310, or
\* FileStore fails before the file is opened); "save_torn" (FileStore's
\* writeFileSync fails after the file was truncated, fileStore.js 35-38).
StoreFaults == {"none", "load_rejects", "load_empty", "save_rejects", "save_torn"}

EmptyDocument == [machines |-> <<>>, tasks |-> <<>>, history |-> <<>>]

\* loadDB() when store.loadDB() resolves (index.js 23-26).
loadDB(fault) ==
    ensureDBShape(IF fault = "load_empty" THEN EmptyDocument ELSE stored, now)

\* saveDB(db): the document passes through ensureDBShape on its way to the
\* store, which replaces all it holds (FileStore.saveDB writes the file,
\* fileStore.js 35-38; MySQLStore.saveDB deletes and inserts every row in one
\* transaction, 233-311).
Persist(saved) ==
    /\ machines' = saved.machines
    /\ tasks' = saved.tasks
    /\ history' = saved.history

\* A save that keeps the stored cards, tasks and events the document lacks.
saveDB_KeepOthers(db) ==
    Persist(ensureDBShape(
        [ machines |-> db.machines
                         \o SelectSeq(machines, LAMBDA c : ~\E i \in DOMAIN db.machines :
                                                              db.machines[i].id = c.id),
          tasks |-> db.tasks
                      \o SelectSeq(tasks, LAMBDA tk : ~\E i \in DOMAIN db.tasks :
                                                          /\ db.tasks[i].id = tk.id
                                                          /\ db.tasks[i].machine_id = tk.machine_id),
          history |-> db.history
                        \o SelectSeq(history, LAMBDA e : ~\E i \in DOMAIN db.history :
                                                            db.history[i] = e) ], now))

saveDB(db) == Persist(ensureDBShape(db, now))

\* The error middleware's answer to a rejected handler (index.js 794-797).
InternalError == [status |-> 500, ok |-> FALSE]

\* A handler whose loadDB() rejects.
LoadRejected ==
    /\ resp' = InternalError
    /\ UNCHANGED <<machines, tasks, history>>
    /\ Silent

\* `await saveDB(db); broadcastDashboardUpdate(payload); res.json(response)`.
\* A torn file is one FileStore.loadDB no longer parses: what is persisted
\* is then the empty document.
SaveAndPublish(db, fault, payload, response) ==
    IF fault = "save_rejects"
    THEN /\ resp' = InternalError
         /\ UNCHANGED <<machines, tasks, history>>
         /\ Silent
    ELSE IF fault = "save_torn"
    THEN /\ resp' = InternalError
         /\ Persist(EmptyDocument)
         /\ Silent
    ELSE /\ saveDB(db)
         /\ Publish(broadcastDashboardUpdate(sse, payload))
         /\ resp' = response

\* The end of POST /api/report (index.js 651-657): save, publish and
\* respond; key is the identity the response's card was reported with.
RespondReport(out, key, fault) ==
    /\ SaveAndPublish(out.db, fault,
                      [reason |-> "report", machine_id |-> out.resp.machine,
                       updated_at |-> now],
                      out.resp)
    /\ firstId' = IF fault \in {"save_rejects", "save_torn"}
                     \/ \E p \in firstId : p[1] = key
                  THEN firstId
                  ELSE firstId \cup {<<key, out.resp.machine>>}

\* The validation that accepts every report.
machineIdMissing_Never(r) == FALSE

\* `if (!machineId)` (index.js 543).
machineIdMissing(r) == r.machine_id = Blank

\* The stored tasks whose created_at differs between two documents.
createdAtReplaced(before, after) ==
    { <<after[i].machine_id, after[i].id>> : i \in
        { i \in DOMAIN after :
            \E j \in DOMAIN before :
                /\ before[j].machine_id = after[i].machine_id
                /\ before[j].id = after[i].id
                /\ before[j].created_at # after[i].created_at } }

countedRepairs(counts, keys) ==
    [ key \in DOMAIN counts \cup keys |->
        (IF key \in DOMAIN counts THEN counts[key] ELSE 0)
        + (IF key \in keys THEN 1 ELSE 0) ]

\* POST /api/report (index.js 536-658): validate, load, mutate, save,
\* publish, respond.
ReportUnder(r, fault) ==
    /\ ops < MaxOps
    /\ UNCHANGED <<agentVars, uiVars, inflight>>
    /\ req' = [op |-> "report", body |-> r, fault |-> fault]
    /\ ops' = ops + 1
    /\ now' = now
    /\ IF machineIdMissing(r)
       THEN /\ resp' = [status |-> 400, ok |-> FALSE]
            /\ UNCHANGED <<machines, tasks, history, firstId>>
            /\ Silent
       ELSE IF fault = "load_rejects"
       THEN LoadRejected /\ UNCHANGED firstId
       ELSE RespondReport(applyReport(loadDB(fault), r, now), answeredIdentity(r), fault)
    /\ repaired' = countedRepairs(repaired, createdAtReplaced(tasks, tasks'))

Report(r) == ReportUnder(r, "none")

\* The loop of the display-name route run over the looked-up card alone.
renamedMachines_OnlyTarget(ms, mi, displayName) ==
    [ms EXCEPT ![mi].display_name = displayName]

\* The cards of the fingerprint of ms[mi] renamed (index.js 670-680).
renamedMachines(ms, mi, displayName) ==
    [ i \in 1..Len(ms) |->
        IF normalizeMachineFingerprint(ms[i].fingerprint, ms[i].id)
             = normalizeMachineFingerprint(ms[mi].fingerprint, ms[mi].id)
        THEN [ms[i] EXCEPT !.display_name = displayName]
        ELSE ms[i] ]

\* The response of the display-name route (index.js 688-694).
displayNameResponse(machine) ==
    [ status |-> 200, ok |-> TRUE, id |-> machine.id,
      agent_name |-> machine.name,
      display_name |-> machine.display_name,
      display_title |-> composeMachineTitle(machine.display_name, machine.name) ]

\* The answer to an id that is not the id of a card (index.js 667, 733).
NotFound == [status |-> 404, ok |-> FALSE]

\* The route once the card is looked up: mi is its index in db.machines, 0
\* when there is none.
RenameMachine(db, mi, displayName, fault) ==
    IF mi = 0
    THEN /\ resp' = NotFound
         /\ UNCHANGED <<machines, tasks, history>>
         /\ Silent
    ELSE SaveAndPublish([db EXCEPT !.machines = renamedMachines(@, mi, displayName)],
                        fault,
                        [reason |-> "display_name", machine_id |-> db.machines[mi].id,
                         updated_at |-> now],
                        displayNameResponse(renamedMachines(db.machines, mi, displayName)[mi]))

RenameIn(db, id, name, fault) ==
    RenameMachine(db, FirstIndex({ i \in DOMAIN db.machines : db.machines[i].id = id }),
                  normalizeDisplayName(name), fault)

\* PUT /api/dashboard/machine/:id/display-name (index.js 661-695).
SetDisplayNameUnder(id, name, fault) ==
    /\ ops < MaxOps
    /\ UNCHANGED outside
    /\ req' = [op |-> "display_name", id |-> id, display_name |-> name, fault |-> fault]
    /\ ops' = ops + 1
    /\ now' = now
    /\ UNCHANGED firstId
    /\ IF fault = "load_rejects" THEN LoadRejected
       ELSE RenameIn(loadDB(fault), id, name, fault)

SetDisplayName(id, name) == SetDisplayNameUnder(id, name, "none")

Id_pc1 == <<"p","c","1">>
Id_pc2 == <<"p","c","2">>

\* The document GET /seed saves (index.js 775-785).
seedDB(t) ==
    [ machines |-> <<
        [ id |-> Id_pc1, name |-> <<"P","C","-","D","e","v","-","1">>, last_seen |-> t,
          online_since |-> 0, fingerprint |-> Blank, aliases |-> <<>>, display_name |-> Blank ],
        [ id |-> Id_pc2, name |-> <<"P","C","-","D","e","v","-","2">>, last_seen |-> t,
          online_since |-> 0, fingerprint |-> Blank, aliases |-> <<>>, display_name |-> Blank ] >>,
      tasks |-> <<
        [ id |-> <<"t","1">>, machine_id |-> Id_pc1, title |-> "Build MVP dashboard",
          status |-> "in_progress", created_at |-> t, updated_at |-> t, source |-> Blank ],
        [ id |-> <<"t","2">>, machine_id |-> Id_pc1, title |-> "Write API docs",
          status |-> "completed_pending_verification", created_at |-> t, updated_at |-> t,
          source |-> Blank ] >>,
      history |-> <<>> ]

\* GET /seed (index.js 774-792).
SeedUnder(fault) ==
    /\ ops < MaxOps
    /\ UNCHANGED outside
    /\ req' = [op |-> "seed", fault |-> fault]
    /\ ops' = ops + 1
    /\ now' = now
    /\ SaveAndPublish(seedDB(now), fault, [reason |-> "seed", updated_at |-> now],
                      [status |-> 200, ok |-> TRUE])
    /\ firstId' = IF fault \in {"save_rejects", "save_torn"} THEN firstId ELSE {}

Seed == SeedUnder("none")

\* GET /api/dashboard (index.js 698-725).
GetDashboardUnder(fault) ==
    /\ ops < MaxOps
    /\ UNCHANGED outside
    /\ req' = [op |-> "dashboard", fault |-> fault]
    /\ ops' = ops + 1
    /\ resp' = IF fault = "load_rejects" THEN InternalError
               ELSE dashboardResponse(loadDB(fault), now)
    /\ UNCHANGED <<machines, tasks, history, now, firstId>>
    /\ Silent

GetDashboard == GetDashboardUnder("none")

\* The detail route once the card is looked up.
detailOf(db, mi, nowMs) ==
    IF mi = 0 THEN NotFound ELSE detailResponse(db.machines[mi], db, nowMs)

detailIn(db, id, nowMs) ==
    detailOf(db, FirstIndex({ i \in DOMAIN db.machines : db.machines[i].id = id }), nowMs)

\* GET /api/dashboard/machine/:id (index.js 728-752).
GetMachineUnder(id, fault) ==
    /\ ops < MaxOps
    /\ UNCHANGED outside
    /\ req' = [op |-> "detail", id |-> id, fault |-> fault]
    /\ ops' = ops + 1
    /\ resp' = IF fault = "load_rejects" THEN InternalError
               ELSE detailIn(loadDB(fault), id, now)
    /\ UNCHANGED <<machines, tasks, history, now, firstId>>
    /\ Silent

GetMachine(id) == GetMachineUnder(id, "none")

\* GET /api/dashboard/stream (index.js 514-533): the response is registered
\* and sent the connected event.
Connect(c) ==
    /\ channel[c].state = "none"
    /\ UNCHANGED outside
    /\ Publish(writeDashboardStreamEvent(
           [ sse EXCEPT !.clients = Append(@, c),
                        !.channel[c] = [state |-> "open", writable |-> TRUE,
                                        received |-> <<>>] ],
           c, "connected", [updated_at |-> now]))
    /\ UNCHANGED <<machines, tasks, history, now, req, resp, ops, firstId>>

\* The request's close or aborted event (index.js 527-532).
Close(c) ==
    /\ channel[c].state = "open"
    /\ UNCHANGED outside
    /\ dashboardStreamClients' = removeDashboardStreamClient(dashboardStreamClients, c)
    /\ channel' = [channel EXCEPT ![c].state = "closed"]
    /\ UNCHANGED <<machines, tasks, history, now, req, resp, ops, firstId,
                   dashboardStreamEventId>>

\* The connection fails: a write to the response throws from now on; its
\* close event has not been handled yet.
Break(c) ==
    /\ channel[c].state = "open"
    /\ UNCHANGED outside
    /\ channel[c].writable
    /\ channel' = [channel EXCEPT ![c].writable = FALSE]
    /\ UNCHANGED <<machines, tasks, history, now, req, resp, ops, firstId,
                   dashboardStreamClients, dashboardStreamEventId>>

\* broadcastDashboardHeartbeat (index.js 487-500): a client the ping cannot
\* be written to is removed and ended.
Heartbeat ==
    /\ \E i \in DOMAIN dashboardStreamClients : ~channel[dashboardStreamClients[i]].writable
    /\ UNCHANGED outside
    /\ dashboardStreamClients' =
           SelectSeq(dashboardStreamClients, LAMBDA c : channel[c].writable)
    /\ channel' = [ c \in Connections |->
                      IF channel[c].state = "open" /\ ~channel[c].writable
                      THEN [channel[c] EXCEPT !.state = "ended"]
                      ELSE channel[c] ]
    /\ UNCHANGED <<machines, tasks, history, now, req, resp, ops, firstId,
                   dashboardStreamEventId>>

\* The clock advances between requests, up to limit.
Advance(limit) ==
    /\ now < limit
    /\ UNCHANGED outside
    /\ now' = now + 1
    /\ UNCHANGED <<machines, tasks, history, req, resp, ops, firstId>>
    /\ Silent

Tick == Advance(MaxNow)

\* The requests the server holds at once, and one that holds nothing.
Slots == {1, 2}

Idle == [stage |-> "idle"]

\* The browser's clock when the page is opened: Date.now() is far from 0, the
\* initial lastAlertSoundAt.
PageOpenedAt == 10000

\* The store's document is empty at first start (FileStore.loadDB,
\* fileStore.js 21-33) and nobody is subscribed (index.js 20-21).
Init ==
    /\ machines = <<>>
    /\ tasks = <<>>
    /\ history = <<>>
    /\ now = 1
    /\ req = NoRequest
    /\ resp = NoRequest
    /\ ops = 0
    /\ firstId = {}
    /\ dashboardStreamClients = <<>>
    /\ dashboardStreamEventId = 0
    /\ channel = [c \in Connections |-> NoChannel]
    /\ agentNow = 0
    /\ queue = <<>>
    /\ cycles = 0
    /\ wire = <<>>
    /\ delivered = {}
    /\ failed = {}
    /\ dropped = {}
    /\ uiNow = PageOpenedAt
    /\ previousMachineCounts = <<>>
    /\ machineAlertUntil = <<>>
    /\ machineAlertTimers = <<>>
    /\ lastAlertSoundAt = 0
    /\ soundsPlayed = 0
    /\ uiLoads = 0
    /\ loadedTasks = <<>>
    /\ movedAt = <<>>
    /\ inflight = [k \in Slots |-> Idle]
    /\ repaired = <<>>

(***************************************************************************)
(* Inputs                                                                  *)
(***************************************************************************)
Id_m1 == <<"m","1">>
Id_m2 == <<"m","2">>
N_Mac == <<"M","a","c">>
N_mac == <<"m","a","c">>
N_MAC == <<"M","A","C">>
Fp_fp == <<"f","p">>
T_t1 == <<"t","1">>
T_t2 == <<"t","2">>
D_Box == <<"B","o","x">>

Tk(id, status, source, createdAt, updatedAt) ==
    [ id |-> id, title |-> "Task", status |-> status, source |-> source,
      created_at |-> createdAt, updated_at |-> updatedAt ]

Rp(machineId, machineName, fingerprint, payloadTasks) ==
    [ machine_id |-> machineId, machine_name |-> machineName,
      machine_fingerprint |-> fingerprint, tasks |-> payloadTasks ]

\* Reports without tasks that vary the machine id and the fingerprint
\* (blank, its own, or equal to a machine id).
IdentityReports ==
    { Rp(id, N_Mac, fp, <<>>) : id \in {Id_m1, Id_m2}, fp \in {Blank, Fp_fp, Id_m1} }

Next ==
    \/ \E r \in IdentityReports : Report(r)
    \/ \E id \in {Id_m1, Id_pc1}, name \in {Blank, D_Box} : SetDisplayName(id, name)
    \/ Seed
    \/ Tick

Spec == Init /\ [][Next]_vars

\* Reports of one agent name whose machine id and fingerprint change, each
\* with or without the task t1.
MergeReports ==
    { Rp(id, N_Mac, fp, ts) :
        id \in {Id_m1, Id_m2},
        fp \in {Blank, Fp_fp},
        ts \in { <<>>, << Tk(T_t1, "in_progress", Blank, 0, 0) >> } }

NextMerge ==
    \/ \E r \in MergeReports : Report(r)
    \/ Tick

SpecMerge == Init /\ [][NextMerge]_vars

(***************************************************************************)
(* Properties                                                              *)
(***************************************************************************)

\* The normalized (fingerprint, agentName) of a stored card: a blank
\* fingerprint or name stands for the card id.
IdentityPair(m) ==
    << IF trim(m.fingerprint) # Blank THEN trim(m.fingerprint) ELSE trim(m.id),
       IF trim(m.name) # Blank THEN trim(m.name) ELSE trim(m.id) >>

\* C1: in every state reachable through reports, display-name changes and
\* reseeds, the persisted cards hold at most one card per normalized
\* (fingerprint, agentName) pair.
C1_OneCardPerIdentity ==
    \A i, j \in DOMAIN machines :
        IdentityPair(machines[i]) = IdentityPair(machines[j]) => i = j

\* C1 witness: two reports of one identity under different machine ids have
\* been folded into a single persisted card.
C1_Witness ==
    /\ ops >= 2
    /\ \E i \in DOMAIN machines :
          /\ IdentityPair(machines[i]) = <<Fp_fp, N_Mac>>
          /\ {Id_m1, Id_m2} \subseteq Range(machines[i].aliases)

\* C2: every report that carries a given (fingerprint, agent name) is
\* answered with the card id that the first report carrying it was answered
\* with, whatever machine_id it carries.
C2_SameCanonicalId ==
    (req.op = "report" /\ resp.status = 200) =>
        \A p \in firstId :
            p[1] = answeredIdentity(req.body) => resp.machine = p[2]

\* C3: in every reachable state no two stored tasks share the same
\* (cardId, task id), also right after a merge pass has re-pointed the tasks
\* of folded cards to the canonical card.
C3_TaskKeyUnique ==
    \A i, j \in DOMAIN tasks :
        (tasks[i].machine_id = tasks[j].machine_id /\ tasks[i].id = tasks[j].id) => i = j

\* C3 witness: the task t1 was created under two cards (two created events),
\* a report without tasks has just folded one card into the other, and the
\* canonical card holds t1 once.
C3_Witness ==
    /\ req.op = "report" /\ req.body.tasks = <<>>
    /\ Len(machines) = 1
    /\ {Id_m1, Id_m2} \subseteq Range(machines[1].aliases)
    /\ Cardinality({ k \in DOMAIN history :
            /\ history[k].event = "created"
            /\ history[k].task_id = T_t1
            /\ history[k].machine_id = machines[1].id }) = 2
    /\ Len(TasksOf(tasks, machines[1].id)) = 1

(***************************************************************************)
(* Duplicate delivery: one machine whose name may equal a task source      *)
(***************************************************************************)
N_codex == <<"c","o","d","e","x">>

DupReports ==
    { Rp(Id_m1, N_Mac, Fp_fp, ts) :
        ts \in { <<Tk(T_t1, "in_progress", Blank, 0, 0)>>,
                 <<Tk(T_t1, "verified", Blank, 0, 0)>>,
                 <<Tk(T_t1, "in_progress", Blank, 0, 0), Tk(T_t2, "verified", S_Codex, 0, 0)>> } }
    \cup
    { Rp(Id_m1, N_codex, Fp_fp, ts) :
        ts \in { <<Tk(T_t1, "in_progress", Blank, 0, 0)>>,
                 <<Tk(T_t1, "in_progress", Blank, 0, 0), Tk(T_t1, "verified", S_Codex, 0, 0)>> } }

NextDup ==
    \/ \E r \in DupReports : Report(r)
    \/ Tick

SpecDup == Init /\ [][NextDup]_vars

\* A card without its presence fields last_seen and online_since.
WithoutPresence(m) ==
    [ id |-> m.id, name |-> m.name, fingerprint |-> m.fingerprint,
      aliases |-> m.aliases, display_name |-> m.display_name ]

\* C4: a report delivered a second time (the same body as the request just
\* answered) leaves the tasks and the history as they are, and the cards as
\* they are except for last_seen and online_since.
C4_DuplicateDeliveryIdempotent ==
    [][ (req.op = "report" /\ resp.status = 200 /\ ops' = ops + 1 /\ req' = req)
        => /\ tasks' = tasks
           /\ history' = history
           /\ [i \in DOMAIN machines' |-> WithoutPresence(machines'[i])]
                = [i \in DOMAIN machines |-> WithoutPresence(machines[i])] ]_vars

\* What a history event says: its kind, its task and the transition.
EventView(e) ==
    [ event |-> e.event, machine_id |-> e.machine_id, task_id |-> e.task_id,
      from_status |-> e.from_status, to_status |-> e.to_status ]

EventViews(hist) == [i \in 1..Len(hist) |-> EventView(hist[i])]

\* The events the applied tasks call for, given the tasks stored before
\* the report on the card cid: created for a task not stored, status_changed
\* for a stored task whose normalized status differs, none otherwise.
RECURSIVE ExpectedEvents(_, _)
ExpectedEvents(applied, cid) ==
    IF applied = <<>> THEN <<>>
    ELSE LET a == Head(applied)
             k == findTask(tasks, cid, a.id)
             to == normalizeTaskStatus(a.status)
             one == [ event |-> IF k = 0 THEN "created" ELSE "status_changed",
                      machine_id |-> cid, task_id |-> a.id,
                      from_status |-> IF k = 0 THEN Null ELSE normalizeTaskStatus(tasks[k].status),
                      to_status |-> to ]
         IN  (IF k = 0 \/ one.from_status # to THEN <<one>> ELSE <<>>)
             \o ExpectedEvents(Tail(applied), cid)

\* The last n elements of a sequence.
LastN(seq, n) == IF Len(seq) > n THEN SubSeq(seq, Len(seq) - n + 1, Len(seq)) ELSE seq

\* No card of the state before the step is folded into another by it.
NoCardFolded == \A i \in DOMAIN machines : HasId(machines', machines[i].id)

\* C5: a report whose applied tasks form one group appends, per applied
\* task and in order, exactly one `created` event (from_status null) when
\* the task was not stored on the card, exactly one `status_changed` event
\* (stored status -> new status) when its normalized status differs from the
\* stored one, and nothing otherwise; the history keeps its last
\* HISTORY_LIMIT events.
C5_OneEventPerChange ==
    [][ ( /\ ops' = ops + 1
          /\ req'.op = "report"
          /\ resp'.status = 200
          /\ Len(taskGroupsOf(req'.body.tasks)) = 1
          /\ NoCardFolded )
        => EventViews(history')
             = LastN(EventViews(history)
                       \o ExpectedEvents(dedupeIncomingTasks(req'.body.tasks), resp'.machine),
                     HISTORY_LIMIT) ]_vars

\* t1 reported in_progress and then verified: the history is the created
\* event followed by exactly one status_changed in_progress -> verified.
C5_Witness ==
    /\ ops = 2
    /\ req.op = "report"
    /\ req.body.tasks = <<Tk(T_t1, "verified", Blank, 0, 0)>>
    /\ EventViews(history)
         = << [ event |-> "created", machine_id |-> Id_m1, task_id |-> T_t1,
                from_status |-> Null, to_status |-> "in_progress" ],
              [ event |-> "status_changed", machine_id |-> Id_m1, task_id |-> T_t1,
                from_status |-> "in_progress", to_status |-> "verified" ] >>

(***************************************************************************)
(* Source splitting: reports whose tasks come from several sources         *)
(***************************************************************************)
SplitReports ==
    { Rp(Id_m1, N_Mac, Fp_fp, ts) :
        ts \in { <<Tk(T_t1, "in_progress", Blank, 0, 0)>>,
                 <<Tk(T_t1, "in_progress", S_Codex, 0, 0), Tk(T_t2, "in_progress", S_codex, 0, 0),
                   Tk(T_t1, "verified", S_OpenCode, 0, 0)>>,
                 <<Tk(T_t1, "in_progress", S_Codex, 0, 0), Tk(T_t1, "verified", S_Codex, 0, 0),
                   Tk(T_t2, "verified", S_OpenCode, 0, 0)>> } }
    \cup
    { Rp(Id_m1, N_codex, Fp_fp, ts) :
        ts \in { <<Tk(T_t1, "in_progress", S_Codex, 0, 0)>>,
                 <<Tk(T_t1, "in_progress", S_Codex, 0, 0),
                   Tk(T_t1, "verified", S_OpenCode, 0, 0)>> } }

NextSplit ==
    \/ \E r \in SplitReports : Report(r)
    \/ Tick

SpecSplit == Init /\ [][NextSplit]_vars

\* The distinct (normalized) sources of a report's tasks, and the task ids a
\* source carries in the report.
SourcesOf(r) == { normalizeTaskSource(r.tasks[i].source) : i \in DOMAIN r.tasks }

IdsOfSource(r, source) ==
    { r.tasks[i].id : i \in { j \in DOMAIN r.tasks :
                                normalizeTaskSource(r.tasks[j].source) = source } }

\* The first report into an empty store, every task of which names a source.
FirstSourcedReport ==
    /\ ops = 1
    /\ req.op = "report"
    /\ resp.status = 200
    /\ req.body.tasks # <<>>
    /\ Blank \notin SourcesOf(req.body)

\* The dashboard has one row per source of the report, with the title
\* titles[source] and that source's number of task ids as total_tasks.
OneCardPerSource(titles) ==
    /\ Len(machines) = Cardinality(SourcesOf(req.body))
    /\ \A source \in SourcesOf(req.body) :
         \E i \in DOMAIN machines :
            /\ dashboardRow(machines[i], tasks).display_title = titles[source]
            /\ dashboardRow(machines[i], tasks).total_tasks
                 = Cardinality(IdsOfSource(req.body, source))

QualifiedTitle(name, source) == name \o MiddleDot \o source

QualifiedUnlessEqual(name, source) ==
    IF toLowerCase(name) = toLowerCase(source) THEN name ELSE name \o MiddleDot \o source

Fp_fq == <<"f","q">>

CaseReports ==
    { Rp(Id_m1, name, Fp_fp, <<Tk(T_t1, "in_progress", Blank, 0, 0)>>) :
        name \in {N_Mac, N_mac, N_MAC} }
    \cup
    { Rp(Id_m1, N_Mac, Fp_fq, <<Tk(T_t1, "in_progress", Blank, 0, 0)>>),
      Rp(Id_m1, N_mac, Fp_fp, <<Tk(T_t1, "in_progress", S_Codex, 0, 0)>>),
      Rp(Id_m1, N_Mac, Fp_fp, <<Tk(T_t1, "verified", S_Codex, 0, 0)>>) }

NextCase ==
    \/ \E r \in CaseReports : Report(r)
    \/ Tick

SpecCase == Init /\ [][NextCase]_vars

\* Of a report with a single task group: the group's source, the desired
\* (source-qualified) id and the source-qualified agent name.
GroupSourceOf(r) == normalizeTaskSource(taskGroupsOf(r.tasks)[1].source)

DesiredIdOf(r) ==
    IF GroupSourceOf(r) = Blank THEN r.machine_id
    ELSE r.machine_id \o Sep \o normalizeSourceToken(GroupSourceOf(r))

AgentNameOf(r) ==
    composeMachineAgentName(normalizeAgentName(r.machine_name, r.machine_id), GroupSourceOf(r))

\* The (fingerprint, agentName) pair of a stored card, and of a report.
CardIdentity(m) ==
    << IF trim(m.fingerprint) # Blank THEN trim(m.fingerprint) ELSE trim(m.id),
       IF trim(m.name) # Blank THEN trim(m.name) ELSE trim(m.id) >>

ReportIdentity(r) ==
    << IF trim(r.machine_fingerprint) # Blank THEN trim(r.machine_fingerprint)
       ELSE trim(r.machine_id),
       AgentNameOf(r) >>

\* The suffixed id <desired>::<slug(agentName)>-<n>.
SuffixedId(desired, agentName, n) ==
    desired \o Sep \o ReplaceNonAlnumRuns(toLowerCase(agentName), FALSE)
            \o <<"-">> \o NumToStr(n)

\* A single-group report is answered in this step, no stored card has its
\* (fingerprint, agentName), and its desired id is the id of a stored card.
ConflictingReportStep ==
    /\ ops' = ops + 1
    /\ req'.op = "report"
    /\ resp'.status = 200
    /\ Len(taskGroupsOf(req'.body.tasks)) = 1
    /\ \A i \in DOMAIN machines : CardIdentity(machines[i]) # ReportIdentity(req'.body)
    /\ HasId(machines, DesiredIdOf(req'.body))

\* No stored card holds the report's desired id (as id or alias) under the
\* report's agent name.
NoAliasMatch(r) ==
    \A i \in DOMAIN machines :
        (machines[i].id = DesiredIdOf(r) \/ DesiredIdOf(r) \in Range(machines[i].aliases))
            => CardIdentity(machines[i])[2] # AgentNameOf(r)

\* The step allocates the card <desired>::<slug>-<n> for the smallest unused
\* n, after the stored cards, and leaves the stored cards and tasks as they are.
AllocatesSuffixedCard(r) ==
    /\ \E n \in 1..(Len(machines) + 1) :
          /\ resp'.machine = SuffixedId(DesiredIdOf(r), AgentNameOf(r), n)
          /\ \A k \in 1..n :
                HasId(machines, SuffixedId(DesiredIdOf(r), AgentNameOf(r), k)) <=> k < n
    /\ Len(machines') = Len(machines) + 1
    /\ machines'[Len(machines')].id = resp'.machine
    /\ SubSeq(machines', 1, Len(machines)) = machines
    /\ Len(tasks') >= Len(tasks)
    /\ SubSeq(tasks', 1, Len(tasks)) = tasks

DistinctCardIds ==
    \A i, j \in DOMAIN machines : machines[i].id = machines[j].id => i = j

CaseChangeStep ==
    /\ ops = 1 /\ ops' = 2
    /\ req.op = "report" /\ req'.op = "report"
    /\ resp.status = 200 /\ resp'.status = 200
    /\ req'.body.machine_id = req.body.machine_id
    /\ req'.body.machine_fingerprint = req.body.machine_fingerprint
    /\ Len(req.body.tasks) = 1 /\ Len(req'.body.tasks) = 1
    /\ req'.body.tasks[1].id = req.body.tasks[1].id
    /\ GroupSourceOf(req.body) # Blank
    /\ GroupSourceOf(req'.body) = GroupSourceOf(req.body)
    /\ req'.body.machine_name # req.body.machine_name
    /\ toLowerCase(req'.body.machine_name) = toLowerCase(req.body.machine_name)

\* C8: two such reports resolve to the single card <machine_id>::<source-slug>,
\* and the second updates the one stored task to its status instead of
\* creating a second card or task.
C8_SingleCardOnCaseChange ==
    [][ CaseChangeStep =>
          /\ Len(machines') = 1
          /\ machines'[1].id = DesiredIdOf(req'.body)
          /\ resp'.machine = DesiredIdOf(req'.body)
          /\ Len(tasks') = 1
          /\ tasks'[1].machine_id = DesiredIdOf(req'.body)
          /\ tasks'[1].status = normalizeTaskStatus(req'.body.tasks[1].status) ]_vars

(***************************************************************************)
(* Task timestamps: one task reported with and without created_at and      *)
(* updated_at, in ISO form, in another spelling, or unparseable            *)
(***************************************************************************)
\* Three instants later than every receipt time, as ISO-8601 UTC strings.
T0 == 5
T1 == 6
T2 == 7

TimeReports ==
    { Rp(Id_m1, N_Mac, Fp_fp, <<Tk(T_t1, "in_progress", Blank, c, u)>>) :
        c \in {0, T0, T1}, u \in {0, -1, T1, T2, OtherForm + T2} }

NextTime ==
    \/ \E r \in TimeReports : Report(r)
    \/ Tick

SpecTime == Init /\ [][NextTime]_vars

\* A report of one task, without created_at, is answered in this step, and
\* the task is already stored on the answering card.
RereportWithoutCreatedAt ==
    /\ ops' = ops + 1
    /\ req'.op = "report"
    /\ resp'.status = 200
    /\ Len(req'.body.tasks) = 1
    /\ req'.body.tasks[1].created_at = 0
    /\ findTask(tasks, resp'.machine, req'.body.tasks[1].id) # 0
    /\ NoCardFolded

\* The task of the report as stored before and after the step.
StoredBefore == tasks[findTask(tasks, resp'.machine, req'.body.tasks[1].id)]

StoredAfter == tasks'[findTask(tasks', resp'.machine, req'.body.tasks[1].id)]

\* C9 as stated: such a report leaves the stored created_at as it is, and
\* sets updated_at to the inbound updated_at when the report carries one,
\* keeping the stored updated_at otherwise.
C9_Original ==
    [][ RereportWithoutCreatedAt =>
          /\ StoredAfter.created_at = StoredBefore.created_at
          /\ StoredAfter.updated_at
               = IF req'.body.tasks[1].updated_at # 0
                 THEN req'.body.tasks[1].updated_at
                 ELSE StoredBefore.updated_at ]_vars

\* C9, amended: such a report leaves the stored created_at as it is, and
\* sets updated_at to the instant of the inbound updated_at, in ISO-8601 UTC
\* form, when the report carries a parseable one, keeping the stored
\* updated_at otherwise.
C9_TimestampsPreserved ==
    [][ RereportWithoutCreatedAt =>
          /\ StoredAfter.created_at = StoredBefore.created_at
          /\ StoredAfter.updated_at
               = IF req'.body.tasks[1].updated_at > 0
                 THEN DateParse(req'.body.tasks[1].updated_at)
                 ELSE StoredBefore.updated_at ]_vars

\* created_at = T0, updated_at = T1, then only updated_at = T2.
C9_Witness ==
    /\ ops = 2
    /\ req.op = "report"
    /\ req.body.tasks[1].created_at = 0
    /\ req.body.tasks[1].updated_at = T2
    /\ Len(tasks) = 1
    /\ tasks[1].created_at = T0
    /\ tasks[1].updated_at = T2

(***************************************************************************)
(* Status aliases: one task reported under every status spelling           *)
(***************************************************************************)
InboundStatuses ==
    { "running", "active", "done", "completed", "archived",
      "completed_pending_verification", "in_progress", "awaiting_verification",
      "verified", "" }

StatusReports ==
    { Rp(Id_m1, N_Mac, Fp_fp, <<Tk(T_t1, st, Blank, 0, 0)>>) : st \in InboundStatuses }

NextStatus ==
    \/ \E r \in StatusReports : Report(r)
    \/ Tick

SpecStatus == Init /\ [][NextStatus]_vars

\* The alias table of the claim.
StatedAliases ==
    [ running |-> "in_progress",
      active |-> "in_progress",
      done |-> "verified",
      completed |-> "verified",
      archived |-> "verified",
      completed_pending_verification |-> "awaiting_verification",
      in_progress |-> "in_progress",
      awaiting_verification |-> "awaiting_verification",
      verified |-> "verified" ]

\* The last request reported one task with a status of the table.
ReportedTableStatus ==
    /\ req.op = "report"
    /\ resp.status = 200
    /\ Len(req.body.tasks) = 1
    /\ req.body.tasks[1].status \in DOMAIN StatedAliases

\* The status stored for the task of the last request.
StoredStatus == tasks[findTask(tasks, resp.machine, req.body.tasks[1].id)].status

\* C10: the stored status is the alias-table value of the inbound one:
\* running, active -> in_progress; done, completed, archived -> verified;
\* completed_pending_verification -> awaiting_verification; the three
\* canonical values map to themselves.
C10_StatusAliasTable ==
    ReportedTableStatus => StoredStatus = StatedAliases[req.body.tasks[1].status]
(***************************************************************************)
(* Rejected requests                                                       *)
(***************************************************************************)
\* A report that creates the card m1, and two reports without a machine id.
RejectReports ==
    { Rp(Id_m1, N_Mac, Fp_fp, << Tk(T_t1, "in_progress", Blank, 0, 0) >>),
      Rp(Blank, N_Mac, Fp_fp, << Tk(T_t1, "in_progress", Blank, 0, 0) >>),
      Rp(Blank, Blank, Blank, <<>>) }

NextReject ==
    \/ \E r \in RejectReports : Report(r)
    \/ \E id \in {Id_m1, Id_m2} : SetDisplayName(id, D_Box)
    \/ \E id \in {Id_m1, Id_m2} : GetMachine(id)
    \/ \E c \in Connections : Connect(c)
    \/ Tick

SpecReject == Init /\ [][NextReject]_vars

\* The step handles a request and leaves the persisted state and every
\* subscriber's stream as they were.
RejectedWithoutEffect(status) ==
    /\ resp'.status = status
    /\ UNCHANGED <<machines, tasks, history>>
    /\ UNCHANGED <<dashboardStreamClients, dashboardStreamEventId, channel>>

IsCardId(id) == \E i \in DOMAIN machines : machines[i].id = id

\* C11: a report without machine_id is answered 400, and a detail or
\* display-name request for an id that is not the id of a current card is
\* answered 404; in both cases cards, tasks and history are unchanged and no
\* event is written to any subscriber.
C11_RejectedRequestsChangeNothing ==
    [][ ops' = ops + 1 =>
          /\ (req'.op = "report" /\ req'.body.machine_id = Blank)
                => RejectedWithoutEffect(400)
          /\ (req'.op \in {"detail", "display_name"} /\ ~IsCardId(req'.id))
                => RejectedWithoutEffect(404) ]_vars

\* A display-name request for an unknown id was answered 404 while a card
\* exists and a subscriber is registered.
C11_Witness ==
    /\ req.op = "display_name"
    /\ resp.status = 404
    /\ machines # <<>>
    /\ dashboardStreamClients # <<>>

(***************************************************************************)
(* Entries without an id                                                   *)
(***************************************************************************)
\* Reports of one machine whose task lists mix entries with and without an
\* id, the entry without an id coming first or last, with or without a
\* source of its own.
MixedReports ==
    { Rp(Id_m1, N_Mac, Fp_fp, ts) : ts \in {
        << Tk(T_t1, "in_progress", Blank, 0, 0) >>,
        << Tk(Blank, "verified", Blank, 0, 0), Tk(T_t1, "verified", Blank, 0, 0) >>,
        << Tk(T_t1, "in_progress", Blank, 0, 0), Tk(Blank, "verified", S_Codex, 0, 0) >>,
        << Tk(Blank, "in_progress", S_Codex, 0, 0), Tk(T_t2, "done", S_OpenCode, 0, 0) >> } }

NextMixed ==
    \/ \E r \in MixedReports : Report(r)
    \/ Tick

SpecMixed == Init /\ [][NextMixed]_vars

HasIdlessEntry(r) == \E i \in DOMAIN r.tasks : r.tasks[i].id = Blank

HasEntryWithId(r) == \E i \in DOMAIN r.tasks : r.tasks[i].id # Blank

\* The report with its entries without an id taken out.
WithoutIdless(r) == [r EXCEPT !.tasks = SelectSeq(@, LAMBDA tk : tk.id # Blank)]

\* What persisting the outcome of the report r on the stored state gives.
OutcomeOf(r) == ensureDBShape(applyReport(ensureDBShape(stored, now), r, now).db, now)

\* C12: a report that mixes tasks with and without an id succeeds; what is
\* stored and answered is what the same report without the id-less entries
\* gives, and no task or history event without a task id exists.
C12_IdlessEntriesSkipped ==
    [][ (ops' = ops + 1 /\ req'.op = "report"
         /\ HasIdlessEntry(req'.body) /\ HasEntryWithId(req'.body))
        => /\ resp'.status = 200
           /\ resp' = applyReport(ensureDBShape(stored, now), WithoutIdless(req'.body), now).resp
           /\ machines' = OutcomeOf(WithoutIdless(req'.body)).machines
           /\ tasks' = OutcomeOf(WithoutIdless(req'.body)).tasks
           /\ history' = OutcomeOf(WithoutIdless(req'.body)).history
           /\ \A i \in DOMAIN tasks' : tasks'[i].id # Blank
           /\ \A i \in DOMAIN history' : history'[i].task_id # Blank ]_vars

\* A mixed report whose id-less entry names a source of its own was applied
\* after the task with an id was already stored.
C12_Witness ==
    /\ req.op = "report"
    /\ resp.status = 200
    /\ Len(req.body.tasks) = 2
    /\ req.body.tasks[1].id = T_t1
    /\ req.body.tasks[2].id = Blank
    /\ Len(history) >= 1
    /\ Len(tasks) = 1
    /\ ops >= 2

(***************************************************************************)
(* Store failures                                                          *)
(***************************************************************************)
LoadFaults == {"load_rejects", "load_empty"}

SaveFaults == {"save_rejects", "save_torn"}

\* The task t1 reported in progress, then verified.
StoreReports ==
    { Rp(Id_m1, N_Mac, Fp_fp, << Tk(T_t1, st, Blank, 0, 0) >>) : st \in {"in_progress", "verified"} }

\* Every route, with every failure of the store its handler can meet.
NextStore ==
    \/ \E r \in StoreReports, f \in StoreFaults : ReportUnder(r, f)
    \/ \E f \in StoreFaults : SetDisplayNameUnder(Id_m1, D_Box, f)
    \/ \E f \in {"none"} \cup SaveFaults : SeedUnder(f)
    \/ \E f \in {"none"} \cup LoadFaults : GetDashboardUnder(f)
    \/ Connect("c1")
    \/ Tick

SpecStore == Init /\ [][NextStore]_vars

\* The step handles a report, display-name or reseed request.
WritingRequestStep ==
    /\ ops' = ops + 1
    /\ req'.op \in {"report", "display_name", "seed"}

\* The request of the step reaches saveDB and the save fails.
SaveFailedStep ==
    /\ WritingRequestStep
    /\ req'.fault \in SaveFaults
    /\ \/ req'.op = "seed"
       \/ req'.op = "report" /\ req'.body.machine_id # Blank
       \/ req'.op = "display_name" /\ IsCardId(req'.id)

\* The request of the step reaches loadDB and the read of a document
\* that holds cards fails.
LoadFailedStep ==
    /\ ops' = ops + 1
    /\ machines # <<>>
    /\ req'.fault \in LoadFaults
    /\ ~(req'.op = "report" /\ req'.body.machine_id = Blank)

EventWrittenStep == \E c \in Connections : channel'[c].received # channel[c].received

\* C13: for report, display-name and reseed requests an event is published
\* only once the save has succeeded; when the save fails no subscriber
\* receives an event and the persisted state is the one before the request.
C13_PublishOnlyAfterSave ==
    [][ /\ (WritingRequestStep /\ EventWrittenStep) => req'.fault \notin SaveFaults
        /\ SaveFailedStep => /\ ~EventWrittenStep
                             /\ UNCHANGED <<machines, tasks, history>> ]_vars

\* C14: a request during which the store fails to read or to write is
\* answered with a 5xx, and cards, tasks and history are as before it.
C14_StoreFailureLeavesState ==
    [][ (LoadFailedStep \/ SaveFailedStep)
        => /\ resp'.status >= 500
           /\ UNCHANGED <<machines, tasks, history>> ]_vars

(***************************************************************************)
(* Subscribers                                                             *)
(***************************************************************************)
\* The report that creates the card m1.
StreamReport == Rp(Id_m1, N_Mac, Fp_fp, << Tk(T_t1, "in_progress", Blank, 0, 0) >>)

NextStream ==
    \/ Report(StreamReport)
    \/ SetDisplayName(Id_m1, D_Box)
    \/ Seed
    \/ \E c \in Connections : Connect(c)
    \/ \E c \in Connections : Close(c)
    \/ \E c \in Connections : Break(c)
    \/ Heartbeat

SpecStream == Init /\ [][NextStream]_vars

Registered(c) == c \in Range(dashboardStreamClients)

\* The step is a report, display-name change or reseed answered 200.
PublishingStep ==
    /\ ops' = ops + 1
    /\ req'.op \in {"report", "display_name", "seed"}
    /\ resp'.status = 200

\* The step writes exactly one event to c, a dashboard_updated event that
\* names the request's route.
OneUpdateWritten(c) ==
    /\ Len(channel'[c].received) = Len(channel[c].received) + 1
    /\ SubSeq(channel'[c].received, 1, Len(channel[c].received)) = channel[c].received
    /\ channel'[c].received[Len(channel'[c].received)].event = "dashboard_updated"
    /\ channel'[c].received[Len(channel'[c].received)].data.reason = req'.op

NothingWritten(c) == channel'[c].received = channel[c].received

\* C15: a successful report, display-name change or reseed writes exactly
\* one dashboard_updated event to every registered subscriber whose write
\* succeeds; a subscriber whose write fails is removed from the set and is
\* written nothing from then on; the requests succeed whatever the
\* subscribers' state.
C15_OneEventPerSubscriber ==
    [][ /\ PublishingStep =>
            \A c \in Connections :
                IF Registered(c) /\ channel[c].writable
                THEN OneUpdateWritten(c) /\ c \in Range(dashboardStreamClients')
                ELSE NothingWritten(c) /\ c \notin Range(dashboardStreamClients')
        /\ \A c \in Connections :
               (channel[c].state = "ended") =>
                   (NothingWritten(c) /\ c \notin Range(dashboardStreamClients'))
        /\ (ops' = ops + 1 /\ (req'.op = "display_name" => IsCardId(req'.id)))
               => resp'.status = 200 ]_vars

\* A request succeeded after one subscriber was dropped for a failed write,
\* and another subscriber was sent its event.
C15_Witness ==
    /\ req.op \in {"report", "display_name", "seed"}
    /\ resp.status = 200
    /\ \E c, d \in Connections :
          /\ channel[c].state = "ended"
          /\ Len(channel[c].received) = 1
          /\ Registered(d)
          /\ Len(channel[d].received) = 2
          /\ channel[d].received[2].event = "dashboard_updated"

\* What a subscriber has been sent: connected, then only dashboard_updated.
ConnectedFirstAndOnce(c) ==
    channel[c].state # "none" =>
        /\ channel[c].received # <<>>
        /\ channel[c].received[1].event = "connected"
        /\ \A i \in 2..Len(channel[c].received) :
               channel[c].received[i].event = "dashboard_updated"

\* C16: every subscriber is sent connected exactly once and before any
\* dashboard_updated; it is sent a dashboard_updated only by a request that
\* completes while it is registered: connecting replays nothing, and
\* nothing is sent after the close.
C16_NoReplay ==
    /\ [](\A c \in Connections : ConnectedFirstAndOnce(c))
    /\ [][ \A c \in Connections :
             ~NothingWritten(c) =>
                 \/ channel[c].state = "none" /\ Len(channel'[c].received) = 1
                 \/ Registered(c) /\ channel[c].state = "open"
                    /\ PublishingStep /\ OneUpdateWritten(c) ]_vars

\* One subscriber closed after its first update and was sent nothing of the
\* later one; another connected after the first update and was sent only
\* the later one.
C16_Witness ==
    \E c, d \in Connections :
        /\ channel[c].state = "closed"
        /\ Len(channel[c].received) = 2
        /\ channel[d].state = "open"
        /\ Len(channel[d].received) = 2
        /\ channel[d].received[1].id > channel[c].received[2].id

(***************************************************************************)
(* Presence and the summary order                                          *)
(***************************************************************************)
\* Mac reports a task of OpenCode and one of Codex (two cards at once, the
\* later title first); Mac reports its Codex task alone; Box reports two
\* tasks in progress.
PresenceReports ==
    { Rp(Id_m1, N_Mac, Fp_fp, << Tk(T_t1, "in_progress", S_OpenCode, 0, 0),
                                 Tk(T_t2, "in_progress", S_Codex, 0, 0) >>),
      Rp(Id_m1, N_Mac, Fp_fp, << Tk(T_t2, "in_progress", S_Codex, 0, 0) >>),
      Rp(Id_m2, D_Box, Fp_fq, << Tk(T_t1, "in_progress", Blank, 0, 0),
                                 Tk(T_t2, "active", Blank, 0, 0) >>) }

NextPresence ==
    \/ \E r \in PresenceReports : Report(r)
    \/ GetDashboard
    \/ \E id \in {Id_m2} : GetMachine(id)
    \/ Advance(MaxClock)

SpecPresence == Init /\ [][NextPresence]_vars

\* The last request was a summary read, answered.
SummaryAnswered == req.op = "dashboard" /\ resp.status = 200

\* The stored card a summary row is about.
CardOf(row) == machines[CHOOSE i \in DOMAIN machines : machines[i].id = row.id]

\* C17: read at time now, a card is online iff now - last_seen <= timeout
\* (a report exactly timeout old is still online); otherwise it is offline
\* with offline_since = min(last_seen + timeout, now), which lies between
\* last_seen and now; the card's online_since is reported unchanged.
C17_PresenceFromLastSeen ==
    SummaryAnswered =>
        \A k \in DOMAIN resp.machines :
            LET row == resp.machines[k]
                card == CardOf(row)
                readAt == resp.updated_at
            IN  /\ (row.agent_status = "online")
                       <=> (readAt - card.last_seen <= AGENT_OFFLINE_TIMEOUT_MS)
                /\ row.agent_status \in {"online", "offline"}
                /\ row.agent_status = "offline" =>
                       /\ row.offline_since
                            = Min(card.last_seen + AGENT_OFFLINE_TIMEOUT_MS, readAt)
                       /\ card.last_seen <= row.offline_since
                       /\ row.offline_since <= readAt
                /\ row.online_since = card.online_since

\* A summary held a card whose last report was exactly the timeout old, still
\* online, beside an offline card.
C17_Witness ==
    /\ SummaryAnswered
    /\ \E i, j \in DOMAIN resp.machines :
          /\ resp.machines[i].agent_status = "online"
          /\ resp.updated_at - resp.machines[i].last_seen = AGENT_OFFLINE_TIMEOUT_MS
          /\ resp.machines[j].agent_status = "offline"

\* status-since: online_since of an online row, offline_since of an offline
\* one.
SinceOf(row) ==
    IF row.agent_status = "online" THEN row.online_since ELSE row.offline_since

\* Row a may stand before row b in the order the summary is said to have.
InStatedOrder(a, b) ==
    \/ a.agent_status = "online" /\ b.agent_status = "offline"
    \/ /\ a.agent_status = b.agent_status
       /\ \/ SinceOf(a) > SinceOf(b)
          \/ SinceOf(a) = SinceOf(b) /\ a.last_seen > b.last_seen
          \/ /\ SinceOf(a) = SinceOf(b)
             /\ a.last_seen = b.last_seen
             /\ localeCompare(a.display_title, b.display_title) <= 0

InProgressOrder(a, b) ==
    \/ a.agent_status = "online" /\ b.agent_status = "offline"
    \/ /\ a.agent_status = "online" /\ b.agent_status = "online"
       /\ a.counts.in_progress >= b.counts.in_progress
    \/ /\ a.agent_status = "offline" /\ b.agent_status = "offline"
       /\ a.offline_since >= b.offline_since

\* C19: in the summary, online cards are ordered by in_progress count
\* descending, whichever came online later, and the offline cards follow,
\* ordered by offline_since descending.
C19_OnlineByInProgressCount ==
    SummaryAnswered =>
        \A i, j \in DOMAIN resp.machines :
            i < j => InProgressOrder(resp.machines[i], resp.machines[j])

\* C20: for an offline card the summary and the detail count no task as
\* in_progress, and the detail shows each task stored as in_progress with
\* status awaiting_verification and raw_status in_progress.
C20_OfflineTasksAwaitVerification ==
    /\ SummaryAnswered =>
           \A k \in DOMAIN resp.machines :
               resp.machines[k].agent_status = "offline"
                   => resp.machines[k].counts.in_progress = 0
    /\ (req.op = "detail" /\ resp.status = 200 /\ resp.agent_status = "offline") =>
           /\ resp.counts.in_progress = 0
           /\ \A i \in DOMAIN resp.tasks :
                  /\ "raw_status" \in DOMAIN resp.tasks[i]
                  /\ resp.tasks[i].status # "in_progress"

(***************************************************************************)
(* Display names                                                           *)
(***************************************************************************)
Id_m1_codex == Id_m1 \o Sep \o <<"c","o","d","e","x">>
Id_m1_opencode == Id_m1 \o Sep \o <<"o","p","e","n","c","o","d","e">>

\* One report that makes two source-qualified cards of the fingerprint fp,
\* and one that makes a card of the fingerprint fq.
NameReports ==
    { Rp(Id_m1, N_Mac, Fp_fp, << Tk(T_t1, "in_progress", S_Codex, 0, 0),
                                 Tk(T_t2, "verified", S_OpenCode, 0, 0) >>),
      Rp(Id_m2, N_Mac, Fp_fq, << Tk(T_t1, "in_progress", Blank, 0, 0) >>) }

\* Display names as they are typed: a name, the same name with spaces
\* around it, nothing, only a space.
TypedNames == { D_Box, <<" ">> \o D_Box \o <<" ">>, Blank, <<" ">> }

NextName ==
    \/ \E r \in NameReports : Report(r)
    \/ \E id \in {Id_m1_codex, Id_m1_opencode, Id_m2, Id_pc1}, name \in TypedNames :
          SetDisplayName(id, name)
    \/ Seed
    \/ Tick

SpecName == Init /\ [][NextName]_vars

\* The step answers a display-name request with 200.
RenamedStep ==
    /\ ops' = ops + 1
    /\ req'.op = "display_name"
    /\ resp'.status = 200

\* The index of the card the request of the step names.
NamedCard == CHOOSE i \in DOMAIN machines : machines[i].id = req'.id

SharesFingerprint(a, b) == IdentityPair(a)[1] = IdentityPair(b)[1]

\* C21: a display-name request answered 200 gives every card of the named
\* card's fingerprint the trimmed name (no name when it is blank, and the
\* answered title is then the agent name), leaves every other card as it
\* is, and leaves the tasks and the history as they are.
C21_DisplayNamePropagates ==
    [][ RenamedStep =>
          /\ Len(machines') = Len(machines)
          /\ \A i \in DOMAIN machines :
                IF SharesFingerprint(machines[i], machines[NamedCard])
                THEN machines'[i] = [machines[i] EXCEPT !.display_name = trim(req'.display_name)]
                ELSE machines'[i] = machines[i]
          /\ tasks' = tasks
          /\ history' = history
          /\ trim(req'.display_name) = Blank => resp'.display_title = resp'.agent_name
      ]_vars

\* A name was set through one of two sibling cards while a card of another
\* fingerprint exists: both siblings carry it, the other card does not.
C21_Witness ==
    /\ req.op = "display_name"
    /\ resp.status = 200
    /\ req.id = Id_m1_codex
    /\ \E i, j, k \in DOMAIN machines :
          /\ machines[i].id = Id_m1_codex /\ machines[i].display_name = D_Box
          /\ machines[j].id = Id_m1_opencode /\ machines[j].display_name = D_Box
          /\ machines[k].id = Id_m2 /\ machines[k].display_name = Blank

(***************************************************************************)
(* The reporting agent's retry queue (agent/core/reportClient.ts)          *)
(***************************************************************************)
\* A snapshot is the payload of one cycle: id stands for its tasks and
\* timestamp.  A queued report carries, besides the fields of the queue
\* file, the time of its last failed send (last_failure_at).

\* computeBackoffMs: 5000 * 2^(attempts - 1), at most 5 minutes.
BaseBackoffMs == 5000

MaxBackoffMs == 300000

\* Math.pow works on doubles and does not wrap; from 2^16 on the product is
\* beyond the maximum anyway.
computeBackoffMs(attempts) ==
    IF attempts > 16 THEN MaxBackoffMs
    ELSE Min(BaseBackoffMs * 2^((IF attempts > 0 THEN attempts ELSE 1) - 1), MaxBackoffMs)

\* maxItems of the cycle's flush (20 in the agent) and maxQueueSize of its
\* reportBatch (500 in the agent), scaled down.
FlushMaxItems == 2

MaxQueueSize == 3

\* sendPayload resolves when the endpoint answers ok; rejects holds the
\* snapshots the endpoint does not accept during the cycle.
sendPayload(payload, rejects) == payload.id \notin rejects

Sent(item, kind, ok, nowMs) ==
    [ id |-> item.payload.id, kind |-> kind, ok |-> ok,
      attempts |-> item.attempts, waited |-> nowMs - item.last_failure_at ]

\* The catch branch of the flush loop (reportClient.ts 79-87).
rescheduled(item, nowMs) ==
    [ item EXCEPT !.attempts = @ + 1,
                  !.next_attempt_at = nowMs + computeBackoffMs(item.attempts + 1),
                  !.last_failure_at = nowMs ]

\* An iteration that does not wait for next_attempt_at.
flushItem_Undue(st, item, nowMs, rejects) ==
    IF st.sent >= FlushMaxItems
    THEN [st EXCEPT !.nextQueue = Append(@, item)]
    ELSE IF sendPayload(item.payload, rejects)
    THEN [st EXCEPT !.sent = @ + 1, !.wire = Append(@, Sent(item, "queued", TRUE, nowMs))]
    ELSE [st EXCEPT !.nextQueue = Append(@, rescheduled(item, nowMs)),
                    !.wire = Append(@, Sent(item, "queued", FALSE, nowMs))]

\* An iteration whose catch branch does not keep the report.
flushItem_ForgetFailed(st, item, nowMs, rejects) ==
    IF ~(item.next_attempt_at <= nowMs) \/ st.sent >= FlushMaxItems
    THEN [st EXCEPT !.nextQueue = Append(@, item)]
    ELSE [st EXCEPT !.sent = @ + (IF sendPayload(item.payload, rejects) THEN 1 ELSE 0),
                    !.wire = Append(@, Sent(item, "queued", sendPayload(item.payload, rejects), nowMs))]

\* One iteration of the flush loop (reportClient.ts 69-88).
flushItem(st, item, nowMs, rejects) ==
    IF ~(item.next_attempt_at <= nowMs) \/ st.sent >= FlushMaxItems
    THEN [st EXCEPT !.nextQueue = Append(@, item)]
    ELSE IF sendPayload(item.payload, rejects)
    THEN [st EXCEPT !.sent = @ + 1, !.wire = Append(@, Sent(item, "queued", TRUE, nowMs))]
    ELSE [st EXCEPT !.nextQueue = Append(@, rescheduled(item, nowMs)),
                    !.wire = Append(@, Sent(item, "queued", FALSE, nowMs))]

RECURSIVE flushFrom(_, _, _, _)
flushFrom(items, st, nowMs, rejects) ==
    IF items = <<>> THEN st
    ELSE flushFrom(Tail(items), flushItem(st, Head(items), nowMs, rejects), nowMs, rejects)

\* flushQueuedReports (reportClient.ts 60-93): the queue it saves, the
\* number sent and the requests it made.
flushQueuedReports(q, nowMs, rejects) ==
    flushFrom(q, [nextQueue |-> <<>>, sent |-> 0, wire |-> <<>>], nowMs, rejects)

queuedReport(payload, nowMs) ==
    [ payload |-> payload, attempts |-> 1,
      next_attempt_at |-> nowMs + computeBackoffMs(1),
      created_at |-> nowMs, last_failure_at |-> nowMs ]

\* queue.splice(0, queue.length - limit)
spliceOldest(q) ==
    IF Len(q) > MaxQueueSize THEN SubSeq(q, Len(q) - MaxQueueSize + 1, Len(q)) ELSE q

\* enqueueReport (reportClient.ts 110-130).
enqueueReport(q, payload, nowMs) == spliceOldest(Append(q, queuedReport(payload, nowMs)))

\* A reportBatch without queuePath.
reportBatch_NoQueue(q, payload, nowMs, rejects) == q

\* reportBatch (reportClient.ts 42-58): the queue file after it.
reportBatch(q, payload, nowMs, rejects) ==
    IF sendPayload(payload, rejects) THEN q ELSE enqueueReport(q, payload, nowMs)

IdsOf(q) == { q[i].payload.id : i \in DOMAIN q }

Accepted(w) == { w[i].id : i \in { j \in DOMAIN w : w[j].ok } }

Rejected(w) == { w[i].id : i \in { j \in DOMAIN w : ~w[j].ok } }

\* The cycle once its flush has run: the latest snapshot is sent, and what
\* the cycle did is recorded.
sendLatest(flushed, payload, rejects) ==
    /\ queue' = reportBatch(flushed.nextQueue, payload, agentNow, rejects)
    /\ wire' = Append(flushed.wire,
                      [ id |-> payload.id, kind |-> "latest",
                        ok |-> sendPayload(payload, rejects), attempts |-> 0, waited |-> 0 ])
    /\ delivered' = delivered \cup Accepted(wire')
    /\ failed' = failed \cup Rejected(wire')
    /\ dropped' = dropped \cup (((IdsOf(flushed.nextQueue) \cup {payload.id}) \ IdsOf(queue'))
                                    \ Accepted(wire'))

\* The time between two cycles: the report interval, or longer.
Elapsed == {5000, 300000}

\* Bound of the exploration: the cycles during which the endpoint may
\* reject a request.
MaxCycles == 4

\* One turn of the agent's loop: runCycle (flush the queue, then report the
\* latest snapshot) and the sleep after it.  Snapshots after the bound are
\* all accepted and stand for one another.
RunCycle(rejects, elapsed, limit) ==
    /\ cycles < limit \/ (queue # <<>> /\ rejects = {} /\ elapsed = MaxBackoffMs)
    /\ cycles' = Min(cycles + 1, limit)
    /\ agentNow' = agentNow + elapsed
    /\ sendLatest(flushQueuedReports(queue, agentNow, rejects),
                  [id |-> IF cycles < limit THEN cycles + 1 ELSE 0, timestamp |-> agentNow],
                  rejects)
    /\ UNCHANGED <<machines, tasks, history, now, req, resp, ops, firstId>>
    /\ UNCHANGED <<uiVars, inflight, repaired>>
    /\ Silent

NextQueue ==
    \E rejects \in SUBSET (IdsOf(queue) \cup {cycles + 1}), elapsed \in Elapsed :
        RunCycle(rejects, elapsed, MaxCycles)

SpecQueue == Init /\ [][NextQueue]_vars

\* The step is one turn of the agent's loop.
CycleStep == agentNow' # agentNow

\* The queued reports that are due when the cycle of the step starts.
DueIndexes == { i \in DOMAIN queue : queue[i].next_attempt_at <= agentNow }

\* The positions in the cycle's requests of the re-sends of the snapshot id.
ResendsOf(w, id) == { k \in DOMAIN w : w[k].kind = "queued" /\ w[k].id = id }

AcceptedResends(w) == { k \in DOMAIN w : w[k].kind = "queued" /\ w[k].ok }

\* The latest snapshot is the last request of the cycle, and when its send
\* fails it is in the queue file afterwards; a re-sent report the endpoint
\* accepts is no longer in the queue file.
LatestLastAndQueued ==
    /\ wire' # <<>>
    /\ wire'[Len(wire')].kind = "latest"
    /\ \A k \in 1..(Len(wire') - 1) : wire'[k].kind = "queued"
    /\ ~wire'[Len(wire')].ok => wire'[Len(wire')].id \in IdsOf(queue')
    /\ \A k \in AcceptedResends(wire') : wire'[k].id \notin IdsOf(queue')

\* C22 as stated: a snapshot whose send fails is in the queue afterwards,
\* and in every cycle every due queued report is re-sent before the latest
\* snapshot is sent.
C22_AllDueResentFirst ==
    [][ CycleStep =>
          /\ LatestLastAndQueued
          /\ \A i \in DueIndexes : ResendsOf(wire', queue[i].payload.id) # {}
      ]_vars

\* C22, amended: a snapshot whose send fails is in the queue afterwards, and
\* in every cycle the due queued reports are re-sent in queue order before
\* the latest snapshot is sent, until FlushMaxItems re-sends of the cycle
\* were accepted; the due reports after those stay queued as they are.
C22_DueResentFirstUpToMaxItems ==
    [][ CycleStep =>
          /\ LatestLastAndQueued
          /\ \A i \in DueIndexes :
                \/ ResendsOf(wire', queue[i].payload.id) # {}
                \/ /\ Cardinality(AcceptedResends(wire')) = FlushMaxItems
                   /\ \E j \in DOMAIN queue' : queue'[j] = queue[i]
      ]_vars

\* A cycle re-sent FlushMaxItems queued reports, which were accepted, left a
\* third queued report that was due in the queue without sending it, and
\* queued its latest snapshot, whose send failed.
C22_Witness ==
    /\ Cardinality(AcceptedResends(wire)) = FlushMaxItems
    /\ wire[Len(wire)].kind = "latest"
    /\ ~wire[Len(wire)].ok
    /\ Len(queue) = 2
    /\ ResendsOf(wire, queue[1].payload.id) = {}
    /\ queue[2].payload.id = wire[Len(wire)].id
    /\ queue[1].next_attempt_at <= queue[2].created_at

\* The agent keeps cycling (the loop of main), and after MaxCycles cycles
\* the endpoint accepts every request.
SpecDelivery == SpecQueue /\ WF_vars(NextQueue)

MaxRetryCycles == 7

\* The first snapshot may be rejected, whenever it is sent; every later
\* snapshot is accepted.
NextBackoff ==
    \E rejects \in SUBSET {1}, elapsed \in Elapsed :
        RunCycle(rejects, elapsed, MaxRetryCycles)

SpecBackoff == Init /\ [][NextBackoff]_vars

\* min(5s * 2^(n-1), 5min), in milliseconds.
StatedDelay(n) == IF n >= 7 THEN 300000 ELSE 5000 * 2^(n - 1)

\* C24: a queued report that has failed n times in a row is next attempted
\* at StatedDelay(n) after its last failure, which is between 5 seconds and
\* 5 minutes, and a re-send of it happens no earlier than that.
C24_BackoffBeforeRetry ==
    /\ \A i \in DOMAIN queue :
          /\ queue[i].attempts >= 1
          /\ queue[i].next_attempt_at - queue[i].last_failure_at = StatedDelay(queue[i].attempts)
          /\ queue[i].next_attempt_at - queue[i].last_failure_at >= 5000
          /\ queue[i].next_attempt_at - queue[i].last_failure_at <= 300000
    /\ \A k \in DOMAIN wire :
          wire[k].kind = "queued" => wire[k].waited >= StatedDelay(wire[k].attempts)

\* A report is re-sent after its seventh failure in a row, where the
\* doubling would give more than 5 minutes.
C24_Witness ==
    \E k \in DOMAIN wire :
        /\ wire[k].kind = "queued"
        /\ wire[k].attempts = 7
        /\ wire[k].waited = 300000

(***************************************************************************)
(* The cleanup job (server/scripts/cleanup-offline-cards.js)               *)
(***************************************************************************)
\* An isMachineOffline that counts a card at the threshold as offline.
isMachineOffline_AtThreshold(machine, nowMs, thresholdMs) ==
    IF IsNaNTime(machine.last_seen) THEN TRUE
    ELSE nowMs - DateParse(machine.last_seen) >= thresholdMs

\* isMachineOffline (cleanup-offline-cards.js 77-81).
isMachineOffline(machine, nowMs, thresholdMs) ==
    IF IsNaNTime(machine.last_seen) THEN TRUE
    ELSE nowMs - DateParse(machine.last_seen) > thresholdMs

\* offlineMachines, and offlineMachineIds: their ids, blank ones left out
\* (cleanup-offline-cards.js 114-115).
offlineMachines(db, nowMs, thresholdMs) ==
    SelectSeq(db.machines, LAMBDA m : isMachineOffline(m, nowMs, thresholdMs))

offlineMachineIds(db, nowMs, thresholdMs) ==
    { m.id : m \in Range(offlineMachines(db, nowMs, thresholdMs)) } \ {Blank}

\* nextDb (cleanup-offline-cards.js 136-140).
nextDb(db, ids) ==
    [ machines |-> SelectSeq(db.machines, LAMBDA m : m.id \notin ids),
      tasks |-> SelectSeq(db.tasks, LAMBDA tk : tk.machine_id \notin ids),
      history |-> SelectSeq(db.history, LAMBDA h : h.machine_id \notin ids) ]

\* What the job prints: the numbers found and, for each target, its id and
\* whether its last_seen is invalid (formatMachineLine).
cleanupOutput(db, targets, ids, dryRun) ==
    [ status |-> IF ids = {} THEN "none_found" ELSE IF dryRun THEN "dry_run" ELSE "cleaned",
      cards |-> Cardinality(ids),
      tasks |-> Len(SelectSeq(db.tasks, LAMBDA tk : tk.machine_id \in ids)),
      history |-> Len(SelectSeq(db.history, LAMBDA h : h.machine_id \in ids)),
      targets |-> [ i \in DOMAIN targets |->
                      [id |-> targets[i].id, invalid |-> IsNaNTime(targets[i].last_seen)] ] ]

\* run() once the document is loaded (cleanup-offline-cards.js 114-143): the
\* store saves nextDb as it is.
cleanupRun(db, targets, ids, dryRun) ==
    /\ resp' = cleanupOutput(db, targets, ids, dryRun)
    /\ IF ids = {} \/ dryRun
       THEN UNCHANGED <<machines, tasks, history>>
       ELSE Persist(nextDb(db, ids))

\* One run of the job, with or without --dry-run, with the threshold of
\* --offline-seconds or of the environment.
Cleanup(dryRun, thresholdMs) ==
    /\ ops < MaxOps
    /\ UNCHANGED outside
    /\ req' = [op |-> "cleanup", dry_run |-> dryRun, threshold |-> thresholdMs]
    /\ ops' = ops + 1
    /\ cleanupRun(stored, offlineMachines(stored, now, thresholdMs),
                  offlineMachineIds(stored, now, thresholdMs), dryRun)
    /\ UNCHANGED <<now, firstId>>
    /\ Silent

\* A document written by hand, as the script's tests write theirs: a card
\* seen at time 1 and a card whose last_seen does not parse, each with a
\* task and a history event.
LegacyCard(id, lastSeen) ==
    [ id |-> id, name |-> N_Mac, last_seen |-> lastSeen, online_since |-> 0,
      fingerprint |-> id, aliases |-> <<id>>, display_name |-> Blank ]

LegacyTask(machineId) ==
    [ id |-> T_t1, machine_id |-> machineId, title |-> "Task", status |-> "in_progress",
      created_at |-> 1, updated_at |-> 1, source |-> Blank ]

LegacyDocument ==
    [ machines |-> << LegacyCard(Id_m1, 1), LegacyCard(Id_m2, -1) >>,
      tasks |-> << LegacyTask(Id_m1), LegacyTask(Id_m2) >>,
      history |-> << historyEvent("created", LegacyTask(Id_m1), "", 1),
                     historyEvent("created", LegacyTask(Id_m2), "", 1) >> ]

\* writeDb of the script's tests (cleanup-offline-cards.js 185-187), before
\* anything else has run.
WriteDb(doc) ==
    /\ ops = 0
    /\ stored = EmptyDocument
    /\ Persist(doc)
    /\ UNCHANGED <<now, req, resp, ops, firstId>>
    /\ UNCHANGED outside
    /\ Silent

CleanupThresholds == {AGENT_OFFLINE_TIMEOUT_MS, AGENT_OFFLINE_TIMEOUT_MS + 1}

CleanupReports ==
    { Rp(Id_pc1, D_Box, Fp_fq, << Tk(T_t1, "in_progress", Blank, 0, 0) >>),
      Rp(Id_m1, N_Mac, Id_m1, << Tk(T_t2, "verified", Blank, 0, 0) >>) }

NextCleanup ==
    \/ WriteDb(LegacyDocument)
    \/ \E r \in CleanupReports : Report(r)
    \/ \E dryRun \in BOOLEAN, thresholdMs \in CleanupThresholds : Cleanup(dryRun, thresholdMs)
    \/ Advance(MaxClock)

SpecCleanup == Init /\ [][NextCleanup]_vars

\* The step is a run of the cleanup job.
CleanupStep ==
    /\ ops' = ops + 1
    /\ req'.op = "cleanup"

\* The card's last_seen does not parse or is older than the threshold of the
\* job run in the step.
Stale(m) == m.last_seen <= 0 \/ now - DateParse(m.last_seen) > req'.threshold

StaleIds == { machines[i].id : i \in { j \in DOMAIN machines : Stale(machines[j]) } }

\* C25: a run of the cleanup job without --dry-run leaves exactly the cards
\* that are not stale and exactly the tasks and history events that
\* reference no stale card, each as it was and in the stored order; a run
\* with --dry-run leaves the persisted state as it is.
C25_CleanupRemovesStaleCards ==
    [][ CleanupStep =>
          IF req'.dry_run
          THEN UNCHANGED <<machines, tasks, history>>
          ELSE /\ machines' = SelectSeq(machines, LAMBDA m : ~Stale(m))
               /\ tasks' = SelectSeq(tasks, LAMBDA tk : tk.machine_id \notin StaleIds)
               /\ history' = SelectSeq(history, LAMBDA h : h.machine_id \notin StaleIds)
      ]_vars

\* The job has removed a card whose last_seen does not parse and a card last
\* seen too long ago, and has kept a card with its task and history event.
C25_Witness ==
    /\ req.op = "cleanup"
    /\ resp.status = "cleaned"
    /\ \E i, j \in DOMAIN resp.targets : resp.targets[i].invalid /\ ~resp.targets[j].invalid
    /\ resp.tasks >= 2
    /\ resp.history >= 2
    /\ Len(machines) = 1
    /\ tasks # <<>>
    /\ history # <<>>

(***************************************************************************)
(* The dashboard page's alerts (server/dashboard/public/app.js)            *)
(***************************************************************************)
CARD_ALERT_DURATION_MS == 60000

ALERT_SOUND_COOLDOWN_MS == 2000

\* The expiry timer runs CARD_ALERT_DURATION_MS + 40 after the activation.
AlertTimerSlackMs == 40

\* Map.prototype.set and the deletion of a set of keys.
MapSetAll(f, keys, v) == [ x \in DOMAIN f \cup keys |-> IF x \in keys THEN v ELSE f[x] ]

MapDeleteAll(f, keys) == [ x \in DOMAIN f \ keys |-> f[x] ]

\* collectMachineCounts (app.js 95-105): the rows without id left out; of
\* two rows of one id the later one counts.
collectMachineCounts(ms) ==
    [ id \in { ms[i].id : i \in DOMAIN ms } \ {Blank} |->
        [ inProgress |-> ms[Max(0, FirstIndex({ i \in DOMAIN ms :
                              ms[i].id = id /\ \A j \in DOMAIN ms : j > i => ms[j].id # id }))]
                            .counts.in_progress,
          awaiting |-> ms[Max(0, FirstIndex({ i \in DOMAIN ms :
                              ms[i].id = id /\ \A j \in DOMAIN ms : j > i => ms[j].id # id }))]
                            .counts.awaiting_verification ] ]

\* movedCount of findPromotedMachines (app.js 116-118).
movedCount(previous, current) ==
    Min(-(current.inProgress - previous.inProgress), current.awaiting - previous.awaiting)

\* findPromotedMachines (app.js 107-125): the ids it returns.
findPromotedMachines(nextCounts, previous) ==
    { id \in DOMAIN nextCounts \cap DOMAIN previous :
        movedCount(previous[id], nextCounts[id]) > 0 }

\* isMachineAlerting (app.js 127-130).
isMachineAlerting(alertUntil, machineId, nowMs) ==
    machineId \in DOMAIN alertUntil /\ alertUntil[machineId] > nowMs

\* cleanupExpiredMachineAlerts (app.js 164-174): the ids it clears.
expiredAlerts(alertUntil, nowMs) == { id \in DOMAIN alertUntil : ~(alertUntil[id] > nowMs) }

\* playCardAlertSound (app.js 274-294) when a card newly alerts.
playCardAlertSound(hasNewAlert) ==
    IF hasNewAlert /\ ~(uiNow - lastAlertSoundAt < ALERT_SOUND_COOLDOWN_MS)
    THEN /\ lastAlertSoundAt' = uiNow
         /\ soundsPlayed' = soundsPlayed + 1
    ELSE UNCHANGED <<lastAlertSoundAt, soundsPlayed>>

\* handlePromotedMachines (app.js 296-310) with activateMachineAlert
\* (154-162), and the renderDashboard that follows, which clears the
\* expired alerts.
handlePromotedMachines(promoted) ==
    /\ machineAlertUntil' =
           MapDeleteAll(MapSetAll(machineAlertUntil, promoted, uiNow + CARD_ALERT_DURATION_MS),
                        expiredAlerts(machineAlertUntil, uiNow) \ promoted)
    /\ machineAlertTimers' =
           MapDeleteAll(MapSetAll(machineAlertTimers, promoted,
                                  uiNow + CARD_ALERT_DURATION_MS + AlertTimerSlackMs),
                        expiredAlerts(machineAlertUntil, uiNow) \ promoted)
    /\ playCardAlertSound(\E id \in promoted : ~isMachineAlerting(machineAlertUntil, id, uiNow))

\* The cards one of whose tasks is stored as awaiting_verification and was
\* in_progress when the last snapshot was loaded.
MovedCards ==
    { tasks[j].machine_id : j \in { k \in DOMAIN tasks :
        /\ normalizeTaskStatus(tasks[k].status) = "awaiting_verification"
        /\ \E i \in DOMAIN loadedTasks :
              /\ loadedTasks[i].machine_id = tasks[k].machine_id
              /\ loadedTasks[i].id = tasks[k].id
              /\ normalizeTaskStatus(loadedTasks[i].status) = "in_progress" } }

\* loadAndRender once the snapshot is fetched (app.js 737-741).
renderSnapshot(nextCounts) ==
    /\ handlePromotedMachines(findPromotedMachines(nextCounts, previousMachineCounts))
    /\ previousMachineCounts' = nextCounts

MaxUiLoads == 3

\* loadAndRender (app.js 729-754): the page fetches GET /api/dashboard, on
\* its poll timer or on a live update.
UiLoad ==
    /\ uiLoads < MaxUiLoads
    /\ uiLoads' = uiLoads + 1
    /\ renderSnapshot(collectMachineCounts(dashboardResponse(loadDB("none"), now).machines))
    /\ loadedTasks' = tasks
    /\ movedAt' = MapSetAll(movedAt, MovedCards, uiNow)
    /\ UNCHANGED uiNow
    /\ UNCHANGED <<machines, tasks, history, now, req, resp, ops, firstId>>
    /\ UNCHANGED <<agentVars, inflight, repaired>>
    /\ Silent

\* The expiry timer of a card's alert fires (app.js 146-150), and the
\* render it ends with clears the expired alerts.
UiAlertTimer(id) ==
    /\ id \in DOMAIN machineAlertTimers
    /\ machineAlertTimers[id] <= uiNow
    /\ machineAlertUntil' = MapDeleteAll(machineAlertUntil,
                                         {id} \cup expiredAlerts(machineAlertUntil, uiNow))
    /\ machineAlertTimers' = MapDeleteAll(machineAlertTimers,
                                          {id} \cup expiredAlerts(machineAlertUntil, uiNow))
    /\ UNCHANGED <<uiNow, previousMachineCounts, lastAlertSoundAt, soundsPlayed, uiLoads,
                   loadedTasks, movedAt>>
    /\ UNCHANGED <<machines, tasks, history, now, req, resp, ops, firstId>>
    /\ UNCHANGED <<agentVars, inflight, repaired>>
    /\ Silent

\* Bound of the exploration: the last value of the browser's clock.
MaxUiClock == 72000

\* Time passes in the browser.
UiWait(delta) ==
    /\ uiNow + delta <= MaxUiClock
    /\ uiNow' = uiNow + delta
    /\ UNCHANGED <<previousMachineCounts, machineAlertUntil, machineAlertTimers,
                   lastAlertSoundAt, soundsPlayed, uiLoads, loadedTasks, movedAt>>
    /\ UNCHANGED <<machines, tasks, history, now, req, resp, ops, firstId>>
    /\ UNCHANGED <<agentVars, inflight, repaired>>
    /\ Silent

\* One card's reports: a task in progress, the task awaiting verification,
\* and the task awaiting verification while another one is in progress.
AlertReports ==
    { Rp(Id_m1, N_Mac, Fp_fp, ts) : ts \in {
        << Tk(T_t1, "in_progress", Blank, 0, 0) >>,
        << Tk(T_t1, "awaiting_verification", Blank, 0, 0) >>,
        << Tk(T_t1, "awaiting_verification", Blank, 0, 0),
           Tk(T_t2, "in_progress", Blank, 0, 0) >> } }

UiWaits == {1000, CARD_ALERT_DURATION_MS}

NextAlert ==
    \/ \E r \in AlertReports : Report(r)
    \/ UiLoad
    \/ \E id \in {Id_m1} : UiAlertTimer(id)
    \/ \E delta \in UiWaits : UiWait(delta)

SpecAlert == Init /\ [][NextAlert]_vars

\* The step loads a snapshot into the page.
UiLoadStep == uiLoads' = uiLoads + 1

\* Every card a task of which moved since the last snapshot alerts after the
\* load.
AlertsOnMove ==
    UiLoadStep => \A id \in MovedCards : isMachineAlerting(machineAlertUntil', id, uiNow)

\* A load before which a task moved starts the alert sound.
SoundOnMove ==
    (UiLoadStep /\ MovedCards # {}) => soundsPlayed' = soundsPlayed + 1

\* A card alerts during the minute after the last load that showed a move of
\* one of its tasks, and not after it.
AlertsForOneMinute ==
    \A id \in DOMAIN movedAt :
        isMachineAlerting(machineAlertUntil, id, uiNow)
            <=> uiNow < movedAt[id] + 60000

\* C26: when a task of a card has moved from in_progress to
\* awaiting_verification between two snapshots the page loads, the card
\* alerts from the second load on and the alert sound is started, and the
\* card stops alerting one minute after the last such load.
C26_MoveAlertsCardForOneMinute ==
    /\ [][AlertsOnMove /\ SoundOnMove]_vars
    /\ []AlertsForOneMinute

(***************************************************************************)
(* Reports in flight                                                       *)
(***************************************************************************)
\* POST /api/report from its start to the end of its mutation (index.js
\* 536-650): the handler validates, awaits loadDB() (with the MySQL store:
\* three SELECTs, fileStore.js 173-231) and mutates the loaded document
\* without another await.
LoadReport(k, r) ==
    /\ ops < MaxOps
    /\ inflight[k].stage = "idle"
    /\ ~machineIdMissing(r)
    /\ ops' = ops + 1
    /\ inflight' = [inflight EXCEPT ![k] =
                      [ stage |-> "loaded", body |-> r,
                        out |-> applyReport(loadDB("none"), r, now) ]]
    /\ UNCHANGED <<machines, tasks, history, now, req, resp, firstId>>
    /\ UNCHANGED <<agentVars, uiVars, repaired>>
    /\ Silent

\* The requests other than k that loaded and did not save yet: reports
\* ("loaded") and display-name requests ("renaming").
Pending(k) == { j \in Slots \ {k} : inflight[j].stage \in {"loaded", "renaming"} }

\* The document of a handler that loads again before it saves.
savedDocument_Reloaded(k) ==
    [inflight[k].out EXCEPT !.db = applyReport(loadDB("none"), inflight[k].body, now).db]

\* What the handler passes to saveDB and res.json: the document it loaded
\* and mutated, and the response it built from it (index.js 645-657).
savedDocument(k) == inflight[k].out

\* `await saveDB(db); broadcastDashboardUpdate(...); res.json(...)` of the
\* request in slot k (index.js 651-657); pending: the requests that loaded
\* and did not save yet.
SaveReport(k) ==
    /\ inflight[k].stage = "loaded"
    /\ req' = [op |-> "report", body |-> inflight[k].body, fault |-> "none"]
    /\ RespondReport(savedDocument(k), answeredIdentity(inflight[k].body), "none")
    /\ inflight' = [inflight EXCEPT ![k] =
                      [ stage |-> "answered", body |-> inflight[k].body,
                        out |-> inflight[k].out, resp |-> resp', saved_at |-> now,
                        pending |-> Pending(k) ]]
    /\ repaired' = countedRepairs(repaired, createdAtReplaced(tasks, tasks'))
    /\ UNCHANGED <<now, ops>>
    /\ UNCHANGED <<agentVars, uiVars>>

RaceReports ==
    { Rp(Id_m1, N_Mac, Fp_fp, <<Tk(T_t1, "in_progress", Blank, 0, 0)>>),
      Rp(Id_m1, N_Mac, Fp_fp, <<Tk(T_t1, "awaiting_verification", Blank, 0, 0)>>),
      Rp(Id_m1, N_Mac, Fp_fp, <<Tk(T_t2, "in_progress", Blank, 0, 0)>>),
      Rp(Id_m1, N_Mac, Fp_fp, <<Tk(T_t2, "verified", Blank, 0, 0)>>) }

NoneInFlight == \A k \in Slots : inflight[k].stage = "idle"

NextRace ==
    \/ \E r \in RaceReports : NoneInFlight /\ Report(r)
    \/ \E k \in Slots, r \in RaceReports : LoadReport(k, r)
    \/ \E k \in Slots : SaveReport(k)
    \/ Tick

SpecRace == Init /\ [][NextRace]_vars

\* Request j loaded before request k saved, and saved after it; both are
\* answered.
SavedOver(k, j) ==
    /\ inflight[k].stage = "answered"
    /\ inflight[j].stage = "answered"
    /\ j \in inflight[k].pending

\* The tasks and events request k wrote that are not in what request j
\* wrote.
TasksOnlyOf(k, j) ==
    { tk \in Range(inflight[k].out.db.tasks) :
        \A i \in DOMAIN inflight[j].out.db.tasks :
            inflight[j].out.db.tasks[i] # tk }

EventsOnlyOf(k, j) ==
    { e \in Range(inflight[k].out.db.history) :
        \A i \in DOMAIN inflight[j].out.db.history :
            inflight[j].out.db.history[i] # e }

\* C27: requests are not serialized: when request j loads before request k
\* saves and saves after it, both are acknowledged ok and what is persisted
\* is the document request j loaded and mutated, which holds nothing of
\* what request k alone wrote.
C27_LaterSaveOverwrites ==
    \A k \in Slots, j \in Slots :
        SavedOver(k, j)
        => /\ inflight[k].resp.status = 200 /\ inflight[k].resp.ok
           /\ inflight[j].resp.status = 200 /\ inflight[j].resp.ok
           /\ stored = ensureDBShape(inflight[j].out.db, inflight[j].saved_at)
           /\ \A tk \in TasksOnlyOf(k, j) : \A i \in DOMAIN tasks : tasks[i] # tk
           /\ \A e \in EventsOnlyOf(k, j) : \A i \in DOMAIN history : history[i] # e

\* Two reports of different tasks of one card interleaved: both were
\* acknowledged ok, and the task and the event of the first to save are
\* lost.
C27_Witness ==
    \E k \in Slots, j \in Slots :
        /\ SavedOver(k, j)
        /\ inflight[k].resp.ok /\ inflight[j].resp.ok
        /\ inflight[k].resp.machine = inflight[j].resp.machine
        /\ inflight[k].body.tasks[1].id # inflight[j].body.tasks[1].id
        /\ TasksOnlyOf(k, j) # {}
        /\ EventsOnlyOf(k, j) # {}
        /\ \A i \in DOMAIN tasks : tasks[i].id # inflight[k].body.tasks[1].id
        /\ \A i \in DOMAIN history : history[i].task_id # inflight[k].body.tasks[1].id

(***************************************************************************)
(* The repair of created_at                                                *)
(***************************************************************************)
RepairTimes == {0, T0, T1, T2}

RepairReports ==
    { Rp(Id_m1, N_Mac, Fp_fp, <<Tk(T_t1, "in_progress", Blank, c, u)>>) :
        c \in RepairTimes, u \in RepairTimes }

NextRepair ==
    \/ \E r \in RepairReports : Report(r)
    \/ Tick

SpecRepair == Init /\ [][NextRepair]_vars

\* C28: over any sequence of reports of one task, the stored created_at is
\* replaced by an inbound created_at at most once.
C28_CreatedAtReplacedAtMostOnce ==
    \A key \in DOMAIN repaired : repaired[key] <= 1

(***************************************************************************)
(* Statuses outside the alias table                                        *)
(***************************************************************************)
UnknownStatuses == {"", "paused", "blocked"}

UnknownStatusReports ==
    { Rp(Id_m1, N_Mac, Fp_fp, <<Tk(id, st, Blank, 0, 0)>>) :
        id \in {T_t1, T_t2},
        st \in UnknownStatuses \cup {"running", "awaiting_verification", "verified"} }

NextUnknown ==
    \/ \E r \in UnknownStatusReports : Report(r)
    \/ GetDashboard
    \/ Tick

SpecUnknown == Init /\ [][NextUnknown]_vars

CanonicalStatuses == {"in_progress", "awaiting_verification", "verified"}

\* Every task of the card is counted in exactly one of the card's counts.
CountedOnce(m) ==
    LET counts == buildCounts(TasksOf(tasks, m.id))
    IN  /\ counts.in_progress + counts.awaiting_verification + counts.verified
             = Len(TasksOf(tasks, m.id))
        /\ \A i \in DOMAIN tasks :
             tasks[i].machine_id = m.id
             => normalizeTaskStatus(tasks[i].status) \in CanonicalStatuses

\* C29: an inbound status that is blank or not in the alias table is stored
\* as in_progress: every stored task's status is one of in_progress,
\* awaiting_verification, verified, and every task of a card is counted in
\* exactly one of the card's three counts.
C29_StoredStatusCanonical ==
    /\ \A i \in DOMAIN tasks : tasks[i].status \in CanonicalStatuses
    /\ \A i \in DOMAIN machines : CountedOnce(machines[i])
    /\ (/\ req.op = "report" /\ resp.status = 200
        /\ req.body.tasks[1].status \in UnknownStatuses)
       => \E i \in DOMAIN tasks :
            /\ tasks[i].id = req.body.tasks[1].id
            /\ tasks[i].status = "in_progress"

(***************************************************************************)
(* Online streaks                                                          *)
(***************************************************************************)
\* The stored card of this id in the list ms.
CardIn(ms, id) == ms[CHOOSE i \in DOMAIN ms : ms[i].id = id]

\* The ids of the cards stored before and after the step.
LastingCards ==
    { machines[i].id : i \in DOMAIN machines } \cap { machines'[i].id : i \in DOMAIN machines' }

\* The step answers a report with ok.
ReportAnswered == ops' = ops + 1 /\ req'.op = "report" /\ resp'.status = 200

\* The card was offline, or had no online_since, when the report arrived.
StreakOver(m) ==
    \/ now - DateParse(m.last_seen) > AGENT_OFFLINE_TIMEOUT_MS
    \/ normalizeTimestamp(m.online_since) = 0

\* online_since changes only on a report that finds the card offline or
\* without online_since, and is then the report's time.
StreakRestartsOnlyWhenOver ==
    \A id \in LastingCards :
        CardIn(machines', id).online_since # CardIn(machines, id).online_since
        => /\ ReportAnswered
           /\ StreakOver(CardIn(machines, id))
           /\ CardIn(machines', id).online_since = now
           /\ CardIn(machines', id).last_seen = now

\* The report the card answers for: it restarts the streak of a card whose
\* streak was over, and only advances last_seen of a card that was online.
ReportKeepsOrRestartsStreak ==
    (ReportAnswered /\ resp'.machine \in LastingCards)
    => LET before == CardIn(machines, resp'.machine)
           after == CardIn(machines', resp'.machine)
       IN  /\ after.last_seen = now
           /\ after.online_since = IF StreakOver(before) THEN now ELSE before.online_since

\* C30: across any sequence of reports of one card, online_since changes
\* only on a report that arrives when the card was offline (now - previous
\* last_seen > timeout) or had no online_since, and is then set to that
\* report's time; a report arriving while the card is online advances
\* last_seen and leaves online_since unchanged.
C30_OnlineSinceMarksStreak ==
    [][StreakRestartsOnlyWhenOver /\ ReportKeepsOrRestartsStreak]_vars

\* A card reported again after it went offline (its streak restarted at the
\* report's time, after its task was created), next to a report that found
\* its card online and left online_since behind last_seen.
C30_Witness ==
    /\ req.op = "report" /\ resp.status = 200
    /\ \E i \in DOMAIN machines :
         /\ machines[i].id = resp.machine
         /\ machines[i].online_since = now
         /\ machines[i].last_seen = now
         /\ \E j \in DOMAIN tasks :
              /\ tasks[j].machine_id = machines[i].id
              /\ tasks[j].created_at + AGENT_OFFLINE_TIMEOUT_MS < now
    /\ \E i \in DOMAIN machines :
         /\ machines[i].id # resp.machine
         /\ machines[i].online_since < machines[i].last_seen

(***************************************************************************)
(* Display names of cards created later                                    *)
(***************************************************************************)
\* Reports of one machine, each of one task source: every source has a card
\* of its own with the fingerprint fp.
ShareReports ==
    { Rp(Id_m1, N_Mac, Fp_fp, << Tk(T_t1, st, src, 0, 0) >>) :
        st \in {"in_progress", "verified"}, src \in {S_Codex, S_OpenCode} }

NextShare ==
    \/ \E r \in ShareReports : Report(r)
    \/ \E id \in {Id_m1_codex, Id_m1_opencode}, name \in {D_Box, Blank} :
          SetDisplayName(id, name)
    \/ Tick

SpecShare == Init /\ [][NextShare]_vars

\* C31: any two cards with the same fingerprint have the same display name,
\* also when one of them was created after the name was set on the other.
C31_FingerprintSharesDisplayName ==
    \A i \in DOMAIN machines, j \in DOMAIN machines :
        SharesFingerprint(machines[i], machines[j])
        => normalizeDisplayName(machines[i].display_name)
             = normalizeDisplayName(machines[j].display_name)

(***************************************************************************)
(* The history ledger at its limit                                         *)
(***************************************************************************)
\* Reports of two tasks of one card: up to two events per report.
LedgerReports ==
    { Rp(Id_m1, N_Mac, Fp_fp, << Tk(T_t1, s1, Blank, 0, 0), Tk(T_t2, s2, Blank, 0, 0) >>) :
        s1 \in CanonicalStatuses, s2 \in CanonicalStatuses }

NextLedger ==
    \/ \E r \in LedgerReports : Report(r)
    \/ Tick

SpecLedger == Init /\ [][NextLedger]_vars

\* The events the report of the step appends, in order.
AppendedCount == Len(ExpectedEvents(dedupeIncomingTasks(req'.body.tasks), resp'.machine))

\* C32: after every append the ledger holds at most HISTORY_LIMIT events,
\* and it is the most recent HISTORY_LIMIT appended events in insertion
\* order: a report leaves the old ledger followed by its own events, cut
\* from the front to the limit.
C32_LedgerKeepsMostRecent ==
    /\ [](Len(history) <= HISTORY_LIMIT)
    /\ [][ ReportAnswered
           => /\ AppendedCount <= Len(history')
              /\ EventViews(LastN(history', AppendedCount))
                   = ExpectedEvents(dedupeIncomingTasks(req'.body.tasks), resp'.machine)
              /\ history' = LastN(history \o LastN(history', AppendedCount), HISTORY_LIMIT) ]_vars

\* The ledger is full and the created event of the stored task t1, the
\* oldest event, is no longer in it.
C32_Witness ==
    /\ Len(history) = HISTORY_LIMIT
    /\ \E i \in DOMAIN tasks : tasks[i].id = T_t1
    /\ \A i \in DOMAIN history :
         ~(history[i].task_id = T_t1 /\ history[i].event = "created")
    /\ history[HISTORY_LIMIT].changed_at = now

(***************************************************************************)
(* Events once appended                                                    *)
(***************************************************************************)
Id_m2_codex == Id_m2 \o Sep \o <<"c","o","d","e","x">>

\* Reports of one agent name whose machine id and fingerprint change, with
\* the Codex task t1 in one of two statuses (the card of a machine's Codex
\* tasks answers to two ids from its creation), and renames of the two
\* cards.
EventReports ==
    { Rp(id, N_Mac, fp, << Tk(T_t1, st, S_Codex, 0, 0) >>) :
        id \in {Id_m1, Id_m2},
        fp \in {Blank, Fp_fp},
        st \in {"in_progress", "verified"} }

NextEvents ==
    \/ \E r \in EventReports : Report(r)
    \/ \E id \in {Id_m1_codex, Id_m2_codex} : SetDisplayName(id, D_Box)
    \/ Tick

SpecEvents == Init /\ [][NextEvents]_vars

IsPrefix(a, b) == Len(a) <= Len(b) /\ SubSeq(b, 1, Len(a)) = a

\* The ledger without its first d events.
KeptEvents(d) == SubSeq(history, d + 1, Len(history))

\* The event with its card id replaced.
Repointed(e, id) == [e EXCEPT !.machine_id = id]

\* The card id of an event after the step: the id itself, or the id of the
\* card of the new state that the event's card was folded into.
CardAfter(id) ==
    IF HasId(machines', id) THEN id
    ELSE IF \E i \in DOMAIN machines' : id \in Range(machines'[i].aliases)
    THEN machines'[CHOOSE i \in DOMAIN machines' : id \in Range(machines'[i].aliases)].id
    ELSE id

\* The kept events with the card ids of folded cards re-pointed.
KeptRepointed(d) ==
    [ i \in 1..(Len(history) - d) |->
        Repointed(history[d + i], CardAfter(history[d + i].machine_id)) ]

\* Events are cut from the front only when the ledger is at its limit.
CutOnlyAtLimit(d) == d > 0 => Len(history') = HISTORY_LIMIT

\* C33, as stated: no step changes a field of an appended event; a step
\* only appends events or truncates the ledger from the front.
C33_EventsNeverChange ==
    [][ \E d \in 0..Len(history) :
           /\ CutOnlyAtLimit(d)
           /\ IsPrefix(KeptEvents(d), history') ]_vars

\* C33, amended: no step changes the task id, title, statuses or time of an
\* appended event; its card id changes only when its card is folded into
\* another card, to that card's id; a step only appends events or
\* truncates the ledger from the front.
C33_EventsKeptButRepointed ==
    [][ \E d \in 0..Len(history) :
           /\ CutOnlyAtLimit(d)
           /\ IsPrefix(KeptRepointed(d), history') ]_vars

\* An event that was appended for the card m2 is kept with the card id m1,
\* the card m2 was folded into.
C33_Witness ==
    \E i \in DOMAIN history :
        /\ history[i].id[1] # history[i].machine_id
        /\ HasId(machines, history[i].machine_id)
        /\ ~HasId(machines, history[i].id[1])

(***************************************************************************)
(* Aliases                                                                 *)
(***************************************************************************)
\* The ids a card answers to.
KnownIds(m) == Range(m.aliases) \cup {m.id}

\* The card of the new state that stands for the card m of the old state:
\* the card of the same id, or, when m was folded, a card that knows its id.
Successors(m) ==
    { j \in DOMAIN machines' :
        IF HasId(machines', m.id) THEN machines'[j].id = m.id
        ELSE m.id \in Range(machines'[j].aliases) }

\* Every card lists its own id among its aliases.
OwnIdIsAlias == \A i \in DOMAIN machines : machines[i].id \in Range(machines[i].aliases)

\* A report or rename removes no alias: the card, or the card it was folded
\* into, knows every id it knew.
AliasesOnlyGrow ==
    req'.op \in {"report", "display_name"}
    => \A i \in DOMAIN machines :
          /\ Successors(machines[i]) # {}
          /\ \A j \in Successors(machines[i]) :
                KnownIds(machines[i]) \subseteq Range(machines'[j].aliases)

\* C34: each card's aliases contain its own id, and once a card has been
\* folded into a canonical card the canonical card's aliases contain the
\* folded card's id and all of its aliases in every later state.
C34_AliasesKept == []OwnIdIsAlias /\ [][AliasesOnlyGrow]_vars

\* The Codex card of m2 was folded into the Codex card of m1, whose aliases
\* hold its own id and the ids the folded card answered to.
C34_Witness ==
    /\ ~HasId(machines, Id_m2_codex)
    /\ \E i \in DOMAIN machines :
         /\ machines[i].id = Id_m1_codex
         /\ {Id_m1_codex, Id_m1, Id_m2_codex, Id_m2} \subseteq Range(machines[i].aliases)
    /\ \E i \in DOMAIN history : history[i].id[1] = Id_m2_codex

(***************************************************************************)
(* The merge pass                                                          *)
(***************************************************************************)
\* The ids of the cards the step folds: stored before it, not after it.
FoldedIds ==
    { machines[i].id : i \in DOMAIN machines } \ { machines'[i].id : i \in DOMAIN machines' }

\* The card the report of the step answers for.
ResolvedCard == CardIn(machines', resp'.machine)

\* No other card has the resolved card's (fingerprint, agentName).
NoOtherCardOfIdentity ==
    \A i \in DOMAIN machines' :
        IdentityPair(machines'[i]) = IdentityPair(ResolvedCard)
        => machines'[i].id = ResolvedCard.id

\* What referenced a folded card references the resolved card: nothing
\* references the folded id, each of its tasks is a task of the resolved
\* card and each of its events is, in place, an event of the resolved card.
FoldedAreRepointed ==
    \A f \in FoldedIds :
        /\ f \in Range(ResolvedCard.aliases)
        /\ \A i \in DOMAIN tasks' : tasks'[i].machine_id # f
        /\ \A i \in DOMAIN history' : history'[i].machine_id # f
        /\ \A i \in DOMAIN tasks :
              tasks[i].machine_id = f
              => \E j \in DOMAIN tasks' :
                    /\ tasks'[j].machine_id = ResolvedCard.id
                    /\ tasks'[j].id = tasks[i].id
        /\ \A i \in DOMAIN history :
              history[i].machine_id = f
              => history'[i] = Repointed(history[i], ResolvedCard.id)

\* C35: when a report leaves another card with the (fingerprint, agentName)
\* of the resolved card, no such other card remains after the report, and
\* every task and event that referenced a folded card references the
\* resolved card's id.
C35_MergeFoldsAndRepoints ==
    [][ ReportAnswered => NoOtherCardOfIdentity /\ FoldedAreRepointed ]_vars

\* A report has just folded the Codex card of m2, with its task and its
\* event, into the Codex card of m1.
C35_Witness ==
    /\ req.op = "report" /\ resp.status = 200
    /\ resp.machine = Id_m1_codex
    /\ ~HasId(machines, Id_m2_codex)
    /\ \E i \in DOMAIN history :
         history[i].id[1] = Id_m2_codex /\ history[i].machine_id = Id_m1_codex
    /\ \A i \in DOMAIN tasks : tasks[i].machine_id = Id_m1_codex
    /\ Len(machines) = 1
    /\ Len(history) >= 2

(***************************************************************************)
(* Entries of one report that name the same task                           *)
(***************************************************************************)
S_Foo == <<"F","o","o">>
S_foo == <<"f","o","o">>

\* Reports of one machine with several entries of the task t1: of one source
\* under two spellings that normalize to the same name (codex, Codex), of
\* a source and of none, of one unknown source in two letter cases (Foo,
\* foo, each its own normalized name), with another task in between, and
\* single entries.
CollapseReports ==
    { Rp(Id_m1, N_Mac, Fp_fp, ts) :
        ts \in { << Tk(T_t1, "in_progress", S_codex, 0, 0), Tk(T_t1, "verified", S_Codex, 0, 0) >>,
                 << Tk(T_t1, "verified", S_Codex, 0, 0), Tk(T_t1, "in_progress", S_codex, 0, 0) >>,
                 << Tk(T_t1, "in_progress", S_Codex, 0, 0), Tk(T_t1, "verified", Blank, 0, 0) >>,
                 << Tk(T_t1, "in_progress", S_Foo, 0, 0), Tk(T_t1, "verified", S_foo, 0, 0) >>,
                 << Tk(T_t1, "in_progress", S_Codex, 0, 0), Tk(T_t2, "verified", S_OpenCode, 0, 0),
                    Tk(T_t1, "completed_pending_verification", S_Codex, 0, 0) >>,
                 << Tk(T_t1, "in_progress", Blank, 0, 0), Tk(T_t1, "verified", Blank, 0, 0) >>,
                 << Tk(T_t1, "verified", S_foo, 0, 0) >> } }

NextCollapse ==
    \/ \E r \in CollapseReports : Report(r)
    \/ Tick

SpecCollapse == Init /\ [][NextCollapse]_vars

\* What makes two entries the same entry: the task id and the normalized
\* source, taken as written or without regard to letter case.
EntryKey(id, source, anyCase) ==
    << id, IF anyCase THEN toLowerCase(normalizeTaskSource(source))
           ELSE normalizeTaskSource(source) >>

\* The positions of the last entry of every key of the report.
LastEntries(ts, anyCase) ==
    { i \in DOMAIN ts :
        \A j \in DOMAIN ts :
            j > i => EntryKey(ts[j].id, ts[j].source, anyCase)
                       # EntryKey(ts[i].id, ts[i].source, anyCase) }

\* The stored tasks of the key of the entry e.
StoredOf(ts, e, anyCase) ==
    { k \in DOMAIN ts :
        EntryKey(ts[k].id, ts[k].source, anyCase) = EntryKey(e.id, e.source, anyCase) }

\* The events the step appended (the ledger was not cut).
NewEvents == SubSeq(history', Len(history) + 1, Len(history'))

\* The created events among the new events for the task stored at k.
CreatedFor(k) ==
    { n \in DOMAIN NewEvents :
        /\ NewEvents[n].event = "created"
        /\ NewEvents[n].task_id = tasks'[k].id
        /\ NewEvents[n].machine_id = tasks'[k].machine_id
        /\ NewEvents[n].to_status = tasks'[k].status }

\* The report of the step is applied as its last entries alone.
AppliedAsLastEntries(anyCase) ==
    LET ts == req'.body.tasks
        last == LastEntries(ts, anyCase)
    IN  /\ resp'.tasks_updated = Cardinality(last)
        /\ \A i \in last :
              /\ Cardinality(StoredOf(tasks', ts[i], anyCase)) = 1
              /\ \A k \in StoredOf(tasks', ts[i], anyCase) :
                    /\ tasks'[k].status = normalizeTaskStatus(ts[i].status)
                    /\ (Len(history) + Len(ts) <= HISTORY_LIMIT /\ StoredOf(tasks, ts[i], anyCase) = {})
                       => Cardinality(CreatedFor(k)) = 1
        /\ Len(history) + Len(ts) <= HISTORY_LIMIT
           => Cardinality({ n \in DOMAIN NewEvents : NewEvents[n].event = "created" })
                = Cardinality({ i \in last : StoredOf(tasks, ts[i], anyCase) = {} })

NextOrphan ==
    \/ \E r \in EventReports : Report(r)
    \/ \E id \in {Id_m1_codex, Id_m2_codex, Id_pc1} : SetDisplayName(id, D_Box)
    \/ Seed
    \/ Tick

SpecOrphan == Init /\ [][NextOrphan]_vars

\* C37: in every state reachable through reports, display-name changes and
\* reseeds, every stored task and every history event carries the id of a
\* card of the same persisted state.
C37_NoOrphans ==
    /\ \A i \in DOMAIN tasks : HasId(machines, tasks[i].machine_id)
    /\ \A i \in DOMAIN history : HasId(machines, history[i].machine_id)

\* A card was folded into another one: the task and the event that were
\* written for it belong to a stored card, and the card they were written
\* for is no longer stored.
C37_Witness ==
    /\ Len(machines) = 1
    /\ Cardinality(Range(machines[1].aliases)) >= 4
    /\ \E i \in DOMAIN history :
         /\ ~HasId(machines, history[i].id[1])
         /\ history[i].machine_id = machines[1].id
    /\ \E i \in DOMAIN tasks : tasks[i].machine_id = machines[1].id

(***************************************************************************)
(* Whole-document saves                                                    *)
(***************************************************************************)
\* The display-name route from its start to the end of its loop (index.js
\* 661-680), for the id of a stored card: it awaits loadDB() and renames
\* the cards of the fingerprint in the loaded document.
LoadRename(k, id, name) ==
    /\ ops < MaxOps
    /\ inflight[k].stage = "idle"
    /\ HasId(loadDB("none").machines, id)
    /\ ops' = ops + 1
    /\ inflight' = [inflight EXCEPT ![k] =
         LET db == loadDB("none")
             mi == FirstIndex({ i \in DOMAIN db.machines : db.machines[i].id = id })
             renamed == renamedMachines(db.machines, mi, normalizeDisplayName(name))
         IN  [ stage |-> "renaming",
               body |-> [id |-> id, display_name |-> name],
               out |-> [ db |-> [db EXCEPT !.machines = renamed],
                         resp |-> displayNameResponse(renamed[mi]) ] ]]
    /\ UNCHANGED <<machines, tasks, history, now, req, resp, firstId>>
    /\ UNCHANGED <<agentVars, uiVars, repaired>>
    /\ Silent

\* `await saveDB(db); broadcastDashboardUpdate(...); res.json(...)` of the
\* display-name request in slot k (index.js 682-694).
SaveRename(k) ==
    /\ inflight[k].stage = "renaming"
    /\ req' = [ op |-> "display_name", id |-> inflight[k].body.id,
                display_name |-> inflight[k].body.display_name, fault |-> "none" ]
    /\ SaveAndPublish(inflight[k].out.db, "none",
                      [reason |-> "display_name", machine_id |-> inflight[k].body.id,
                       updated_at |-> now],
                      inflight[k].out.resp)
    /\ inflight' = [inflight EXCEPT ![k] =
                      [ stage |-> "answered", body |-> inflight[k].body,
                        out |-> inflight[k].out, resp |-> resp', saved_at |-> now,
                        pending |-> Pending(k) ]]
    /\ UNCHANGED <<now, ops, firstId, repaired>>
    /\ UNCHANGED <<agentVars, uiVars>>

\* Reports of two machines with cards of their own.
OverwriteReports ==
    { Rp(Id_m1, N_Mac, Fp_fp, <<Tk(T_t1, "in_progress", Blank, 0, 0)>>),
      Rp(Id_m2, D_Box, Fp_fq, <<Tk(T_t1, "in_progress", Blank, 0, 0)>>),
      Rp(Id_m2, D_Box, Fp_fq, <<Tk(T_t2, "verified", Blank, 0, 0)>>) }

NextOverwrite ==
    \/ \E r \in OverwriteReports : NoneInFlight /\ Report(r)
    \/ \E k \in Slots, r \in OverwriteReports : LoadReport(k, r)
    \/ \E k \in Slots : SaveReport(k)
    \/ \E k \in Slots, id \in {Id_m1, Id_m2} : LoadRename(k, id, D_Box)
    \/ \E k \in Slots : SaveRename(k)
    \/ Tick

SpecOverwrite == Init /\ [][NextOverwrite]_vars

\* The step is the save of the request in slot k.
SaveStep(k) ==
    /\ inflight[k].stage \in {"loaded", "renaming"}
    /\ inflight'[k].stage = "answered"

\* The ids of the cards request k wrote that request j did not.
CardsOnlyOf(k, j) ==
    { inflight[k].out.db.machines[i].id : i \in DOMAIN inflight[k].out.db.machines }
      \ { inflight[j].out.db.machines[i].id : i \in DOMAIN inflight[j].out.db.machines }

\* Every save leaves exactly the saving request's document.
SaveReplacesAll ==
    \A k \in Slots :
        SaveStep(k) => stored' = ensureDBShape(inflight[k].out.db, now)

\* After interleaved requests the later saver's document is what is
\* stored: no card, task or event only the earlier saver wrote is there.
LaterSaverWins ==
    \A k \in Slots, j \in Slots :
        SavedOver(k, j)
        => /\ stored = ensureDBShape(inflight[j].out.db, inflight[j].saved_at)
           /\ \A id \in CardsOnlyOf(k, j) :
                 /\ ~HasId(machines, id)
                 /\ \A i \in DOMAIN tasks : tasks[i].machine_id # id
                 /\ \A i \in DOMAIN history : history[i].machine_id # id

\* C38: every save replaces the entire persisted dataset with the saving
\* request's snapshot taken at its own load; when two requests interleave,
\* the persisted state is the later saver's snapshot, also when the two
\* touched disjoint cards.
C38_SaveReplacesDataset == [][SaveReplacesAll]_vars /\ []LaterSaverWins

\* Two reports of different machines interleaved: both were answered ok, and
\* of the card, the task and the event of the first to save nothing is
\* stored.
C38_Witness ==
    \E k \in Slots, j \in Slots :
        /\ SavedOver(k, j)
        /\ inflight[k].resp.status = 200 /\ inflight[j].resp.status = 200
        /\ inflight[k].body.machine_id = Id_m1
        /\ inflight[j].body.machine_id = Id_m2
        /\ CardsOnlyOf(k, j) = {Id_m1}
        /\ Len(machines) = 1
        /\ machines[1].id = Id_m2
        /\ Len(tasks) = 1
        /\ Len(history) = 1

(***************************************************************************)
(* Reports that arrive out of order                                        *)
(***************************************************************************)
\* A snapshot of the task t1 taken at the time u; its title tells which.
Snapshot(status, title, u) == [Tk(T_t1, status, Blank, 0, u) EXCEPT !.title = title]

\* Snapshots of t1 taken at T1 and at T2 and one without updated_at, in
\* either status, delivered in any order.
StaleReports ==
    { Rp(Id_m1, N_Mac, Fp_fp, <<Snapshot(st, v.title, v.u)>>) :
        st \in {"in_progress", "verified"},
        v \in { [title |-> "Earlier", u |-> T1], [title |-> "Later", u |-> T2],
                [title |-> "Untimed", u |-> 0] } }

NextStale ==
    \/ \E r \in StaleReports : Report(r)
    \/ Tick

SpecStale == Init /\ [][NextStale]_vars

\* The stored task the report of the step is about, 0 when it is new.
StoredIndex == findTask(tasks, resp'.machine, req'.body.tasks[1].id)

\* The step answers a report of a stored task whose inbound updated_at is
\* older than the stored one.
OlderReportAnswered ==
    /\ ReportAnswered
    /\ StoredIndex # 0
    /\ normalizeTimestamp(req'.body.tasks[1].updated_at) # 0
    /\ normalizeTimestamp(req'.body.tasks[1].updated_at) < tasks[StoredIndex].updated_at

\* The report's status, title and updated_at are stored, and a change of
\* status is one more status_changed event.
AppliedAsArrived ==
    LET inbound == req'.body.tasks[1]
        old == tasks[StoredIndex]
        new == tasks'[findTask(tasks', resp'.machine, inbound.id)]
        to == normalizeTaskStatus(inbound.status)
    IN  /\ new.status = to
        /\ new.title = inbound.title
        /\ new.updated_at = normalizeTimestamp(inbound.updated_at)
        /\ IF normalizeTaskStatus(old.status) = to
           THEN history' = history
           ELSE /\ history' = LastN(Append(history, history'[Len(history')]), HISTORY_LIMIT)
                /\ EventView(history'[Len(history')])
                     = [ event |-> "status_changed", machine_id |-> resp'.machine,
                         task_id |-> inbound.id,
                         from_status |-> normalizeTaskStatus(old.status), to_status |-> to ]

\* C39: reports are applied in arrival order without comparing timestamps:
\* a report whose inbound updated_at is older than the stored updated_at
\* still overwrites the task's status, title and updated_at and, if the
\* status differs, appends a status_changed event.
C39_OlderReportOverwrites ==
    [][ OlderReportAnswered => AppliedAsArrived ]_vars

\* The snapshot taken at T2 (verified) arrived first and the one taken at T1
\* (in progress) after it: the task is back in progress with the earlier
\* title and time, and the ledger says verified -> in_progress.
C39_Witness ==
    /\ req.op = "report" /\ resp.status = 200
    /\ Len(history) = 2
    /\ history[1].event = "created" /\ history[1].title = "Later"
    /\ history[1].to_status = "verified"
    /\ history[2].event = "status_changed" /\ history[2].title = "Earlier"
    /\ history[2].from_status = "verified" /\ history[2].to_status = "in_progress"
    /\ Len(tasks) = 1
    /\ tasks[1].status = "in_progress"
    /\ tasks[1].title = "Earlier"
    /\ tasks[1].updated_at = T1

(***************************************************************************)
(* The cards a report refreshes                                            *)
(***************************************************************************)
\* Machine m1 reports, under the name Mac or under the name codex, no task,
\* its Codex task, or its Codex task and its OpenCode task, while the
\* server's clock advances.
FrameReports ==
    { Rp(Id_m1, name, Fp_fp, ts) :
        name \in {N_Mac, N_codex},
        ts \in { <<>>,
                 << Tk(T_t1, "in_progress", S_Codex, 0, 0) >>,
                 << Tk(T_t1, "in_progress", S_Codex, 0, 0),
                    Tk(T_t2, "in_progress", S_OpenCode, 0, 0) >> } }

NextFrame ==
    \/ \E r \in FrameReports : Report(r)
    \/ Advance(MaxClock)

SpecFrame == Init /\ [][NextFrame]_vars

\* The sources of the groups the handler makes of a report; the blank
\* source stands for the default group (index.js 547-550).
GroupSources(r) ==
    LET groups == splitTasksBySource(dedupeIncomingTasks(r.tasks))
    IN  IF groups = <<>> THEN {Blank}
        ELSE { normalizeTaskSource(groups[i].source) : i \in DOMAIN groups }

\* The agent names of the cards the handler looks up for a report.
GroupNames(r) ==
    { composeMachineAgentName(r.machine_name, s) : s \in GroupSources(r) }

\* The sources of the tasks stored under a card.
SourcesHeld(ts, id) ==
    { normalizeTaskSource(ts[i].source) : i \in { j \in DOMAIN ts : ts[j].machine_id = id } }

\* The ids of the cards the step created, or changed the last_seen of.
Refreshed ==
    { machines'[i].id : i \in { j \in DOMAIN machines' :
        \/ machines'[j].id \notin { machines[k].id : k \in DOMAIN machines }
        \/ CardIn(machines, machines'[j].id).last_seen # machines'[j].last_seen } }

\* A card of a source of the report: it holds a task of that source, or, for
\* the default group, no task of any source.
OfSourceIn(id, sources) ==
    \/ (SourcesHeld(tasks', id) \ {Blank}) \cap sources # {}
    \/ Blank \in sources /\ SourcesHeld(tasks', id) \subseteq {Blank}

\* C40 as stated: a report changes last_seen only on the cards of the task
\* sources present in it, so that a report without tasks leaves the last_seen
\* of every card holding the tasks of a source unchanged.
C40_ReportRefreshesOnlyItsSources ==
    [][ ReportAnswered => \A id \in Refreshed : OfSourceIn(id, GroupSources(req'.body)) ]_vars

\* The cards the step left alone are offline once the timeout has passed
\* since their last_seen, whoever reported in the step.
OthersTurnOffline ==
    \A i \in DOMAIN machines' :
        ( /\ machines'[i].id \notin Refreshed
          /\ now' - machines'[i].last_seen > AGENT_OFFLINE_TIMEOUT_MS )
        => ~isMachineOnline(machines'[i], now')

\* C40 (amended): a report creates or refreshes exactly the cards whose
\* agent names it composes from its machine name and the sources of its
\* groups, one card a name: without tasks that is the card named as the
\* machine, which is the card of a source when the machine is named as the
\* source.  Every other card keeps its last_seen and turns offline after the
\* timeout.
C40_ReportRefreshesOnlyItsNames ==
    [][ ReportAnswered =>
          /\ \A id \in Refreshed :
                /\ CardIn(machines', id).name \in GroupNames(req'.body)
                /\ CardIn(machines', id).last_seen = now'
                /\ id \in LastingCards => CardIn(machines, id).name = CardIn(machines', id).name
          /\ \A n \in GroupNames(req'.body) :
                Cardinality({ i \in DOMAIN machines' :
                    machines'[i].name = n /\ machines'[i].last_seen = now' }) = 1
          /\ \A id \in LastingCards \ Refreshed :
                \/ CardIn(machines', id).last_seen = CardIn(machines, id).last_seen
                   /\ CardIn(machines', id).name \notin GroupNames(req'.body)
                \/ CardIn(machines', id).last_seen = now'
                   /\ CardIn(machines', id).name \in GroupNames(req'.body)
          /\ OthersTurnOffline ]_vars

\* Mac reported its Codex task and went on reporting without tasks: the
\* report just answered refreshed the source-less card, and the Codex card,
\* still holding the task, is offline.
C40_Witness ==
    /\ req.op = "report" /\ resp.status = 200
    /\ req.body.tasks = <<>> /\ req.body.machine_name = N_Mac
    /\ \E i, j \in DOMAIN machines :
         /\ machines[i].name = N_Mac
         /\ machines[i].last_seen = now
         /\ isMachineOnline(machines[i], now)
         /\ SourcesHeld(tasks, machines[j].id) = {S_Codex}
         /\ machines[j].last_seen < now
         /\ ~isMachineOnline(machines[j], now)

====
